---------------------------- MODULE Spec2Model ----------------------------
(***************************************************************************)
(* The agent loop of ChatViewProvider (src/unnamed/part_000): one turn per *)
(* sendMessage, a bounded loop of model calls, the tool directives of each *)
(* reply executed against the workspace, backups and restore.              *)
(*                                                                         *)
(* Text (paths, file contents, model replies, message contents) is a       *)
(* sequence of atoms, each atom a string standing for one lexeme of the    *)
(* text: string concatenation is \o, startsWith is a prefix test and       *)
(* includes is a test for a contiguous sub-sequence.                       *)
(*                                                                         *)
(* An action is one run of the JavaScript event loop: the code between two *)
(* awaits of an async function runs without interleaving.                  *)
(***************************************************************************)
EXTENDS Naturals, Sequences, FiniteSets, TLC

(***************************************************************************)
(* Bounds of the model and constants of the program.                       *)
(***************************************************************************)
maxLoops == 10
MaxTurns == 2
MaxToolReplies == 2
MaxClears == 1
MaxClock == 2
MaxFaults == 1

(***************************************************************************)
(* Lexemes.                                                                *)
(***************************************************************************)
TO == "<tool code=\""
TP == "\" path=\""
TE == "\">"
TC == "</tool>"
SO == "<search>"
SC == "</search>"
RO == "<replace>"
RC == "</replace>"
BAK == ".bak."
SLASH == "/"
BACKSLASH == "\\"
BOM == "\\uFEFF"
SP == " "
QuoteAtoms == {TO, TP, TE}
WhiteSpace == {SP, "\n"}

(***************************************************************************)
(* String operations of the JavaScript runtime, on sequences of atoms.     *)
(***************************************************************************)
\* the member of a one-element set.  The({e : x \in {v}}) is e for x = v, with
\* v evaluated once, however often e uses x
The(S) == CHOOSE r \in S : TRUE

startsWith(s, p) ==
  /\ Len(p) <= Len(s)
  /\ SubSeq(s, 1, Len(p)) = p

RECURSIVE indexOf(_, _, _)
\* String.prototype.indexOf(pat, from), 1-based; 0 when there is no occurrence
indexOf(s, pat, from) ==
  IF from + Len(pat) - 1 > Len(s) THEN 0
  ELSE IF SubSeq(s, from, from + Len(pat) - 1) = pat THEN from
  ELSE indexOf(s, pat, from + 1)

includes(s, pat) == indexOf(s, pat, 1) # 0

RECURSIVE replaceAll(_, _, _)
\* String.prototype.replace(/x/g, y) for a one-atom pattern x
replaceAll(s, x, y) ==
  IF s = <<>> THEN <<>>
  ELSE (IF Head(s) = x THEN <<y>> ELSE <<Head(s)>>) \o replaceAll(Tail(s), x, y)

RECURSIVE trimStart(_)
trimStart(s) ==
  IF s # <<>> /\ Head(s) \in WhiteSpace THEN trimStart(Tail(s)) ELSE s

RECURSIVE trimEnd(_)
trimEnd(s) ==
  IF s # <<>> /\ s[Len(s)] \in WhiteSpace THEN trimEnd(SubSeq(s, 1, Len(s) - 1)) ELSE s

trim(s) == trimEnd(trimStart(s))

RECURSIVE expandReplacement(_, _, _, _)
\* The replacement patterns String.prototype.replace expands in a replacement
\* string when the pattern is a string: $$, $&, $` and $'.
expandReplacement(rep, matched, before, after) ==
  IF rep = <<>> THEN <<>>
  ELSE IF Head(rep) = "$" /\ Len(rep) >= 2 /\ rep[2] \in {"$", "&", "`", "'"}
       THEN (CASE rep[2] = "$" -> <<"$">>
               [] rep[2] = "&" -> matched
               [] rep[2] = "`" -> before
               [] rep[2] = "'" -> after)
            \o expandReplacement(SubSeq(rep, 3, Len(rep)), matched, before, after)
       ELSE <<Head(rep)>> \o expandReplacement(Tail(rep), matched, before, after)

\* String.prototype.replace(search, replace) with a string pattern: the first
\* occurrence only
replaceFirst(s, search, rep) ==
  LET i == indexOf(s, search, 1)
  IN  IF i = 0 THEN s
      ELSE LET before == SubSeq(s, 1, i - 1)
               after  == SubSeq(s, i + Len(search), Len(s))
           IN  before \o expandReplacement(rep, search, before, after) \o after

\* new TextEncoder().encode(s): UTF-8; the identity on the atoms of the model
encode(s) == s

\* new TextDecoder().decode(bytes): UTF-8 with ignoreBOM = false, a leading
\* byte order mark is dropped
decode(bytes) ==
  IF bytes # <<>> /\ Head(bytes) = BOM THEN Tail(bytes) ELSE bytes


(***************************************************************************)
(* The tool directive regex                                                *)
(*   /<tool code="([^"]+)"(?: path="([^"]+)")?>([\s\S]*?)<\/tool>/g        *)
(* on a sequence of atoms.                                                 *)
(***************************************************************************)
\* the end of the longest run of atoms without a quote that starts at i
RECURSIVE noQuoteRunEnd(_, _)
noQuoteRunEnd(s, i) ==
  IF i <= Len(s) /\ s[i] \notin QuoteAtoms THEN noQuoteRunEnd(s, i + 1) ELSE i - 1

NoMatch == [ok |-> FALSE]

RECURSIVE lastIndexOf(_, _, _)
\* the last occurrence of pat in s from `from` on; 0 when there is none
lastIndexOf(s, pat, from) ==
  IF from + Len(pat) - 1 > Len(s) THEN 0
  ELSE The({ IF later # 0 THEN later
             ELSE IF SubSeq(s, from, from + Len(pat) - 1) = pat THEN from ELSE 0
             : later \in {lastIndexOf(s, pat, from + 1)} })

\* a body that runs up to the last </tool> of the text: a greedy ([\s\S]*)
matchBody_Greedy(s, start, code, path, hasPath, b) ==
  LET c == lastIndexOf(s, <<TC>>, b)
  IN  IF c = 0 THEN NoMatch
      ELSE [ok |-> TRUE, index |-> start, code |-> code, path |-> path,
            hasPath |-> hasPath, content |-> SubSeq(s, b, c - 1), lastIndex |-> c + 1]

\* the body ([\s\S]*?) starts at b and ends before the first </tool> from b on
matchBody(s, start, code, path, hasPath, b) ==
  LET c == indexOf(s, <<TC>>, b)
  IN  IF c = 0 THEN NoMatch
      ELSE [ok |-> TRUE, index |-> start, code |-> code, path |-> path,
            hasPath |-> hasPath, content |-> SubSeq(s, b, c - 1), lastIndex |-> c + 1]

\* a match of the regex that starts at atom i
matchAt(s, i) ==
  IF i > Len(s) \/ s[i] # TO THEN NoMatch
  ELSE LET ce == noQuoteRunEnd(s, i + 1)
           code == SubSeq(s, i + 1, ce)
       IN  IF code = <<>> \/ ce + 1 > Len(s) THEN NoMatch
           ELSE IF s[ce + 1] = TE THEN matchBody(s, i, code, <<>>, FALSE, ce + 2)
           ELSE IF s[ce + 1] = TP
                THEN LET pe == noQuoteRunEnd(s, ce + 2)
                         path == SubSeq(s, ce + 2, pe)
                     IN  IF path = <<>> \/ pe + 1 > Len(s) \/ s[pe + 1] # TE THEN NoMatch
                         ELSE matchBody(s, i, code, path, TRUE, pe + 2)
                ELSE NoMatch

RECURSIVE lastMatch(_, _)
lastMatch(s, from) ==
  IF from > Len(s) THEN NoMatch
  ELSE The({ IF m.ok THEN m ELSE matchAt(s, from) : m \in {lastMatch(s, from + 1)} })

\* an exec that takes the last match of the text, not the first
toolRegexExec_Last(s, from) == lastMatch(s, from)

RECURSIVE toolRegexExec(_, _)
\* toolRegex.exec(answer) with toolRegex.lastIndex = from (1-based): the match
\* at the first atom, from `from` on, where there is one
toolRegexExec(s, from) ==
  IF from > Len(s) THEN NoMatch
  ELSE The({ IF m.ok THEN m ELSE toolRegexExec(s, from + 1) : m \in {matchAt(s, from)} })

RECURSIVE stripTools(_, _)
\* answer.replace(toolRegex, '') from atom `from` on
stripTools(s, from) ==
  LET m == toolRegexExec(s, from)
  IN  IF ~m.ok THEN SubSeq(s, from, Len(s))
      ELSE SubSeq(s, from, m.index - 1) \o stripTools(s, m.lastIndex)

\* answer.replace(toolRegex, '').trim()
narrative(answer) == trim(stripTools(answer, 1))

RECURSIVE toolMatches(_, _)
\* every match of the exec loop, in the order the loop meets them
toolMatches(s, from) ==
  LET m == toolRegexExec(s, from)
  IN  IF ~m.ok THEN <<>> ELSE <<m>> \o toolMatches(s, m.lastIndex)

\* content.match(/<search>([\s\S]*?)<\/search>/) and the <replace> twin:
\* the text between the first opening mark that has a closing mark after it
regionMatch(content, open, close) ==
  LET o == indexOf(content, <<open>>, 1)
      c == IF o = 0 THEN 0 ELSE indexOf(content, <<close>>, o + 1)
  IN  IF o = 0 \/ c = 0 THEN [ok |-> FALSE]
      ELSE [ok |-> TRUE, text |-> SubSeq(content, o + 1, c - 1)]

(***************************************************************************)
(* Paths.                                                                  *)
(***************************************************************************)
ignorePatterns ==
  {"node_modules", "vendor", ".git", "dist", "build", "out",
   "target", "bin", "obj", "lib", ".idea", ".vscode", ".env"}

\* relativePath.replace(/\\/g, '/')
normalizedPath(relativePath) == replaceAll(relativePath, BACKSLASH, SLASH)

\* the ignore test of _writeFile and _readFile
isIgnored(relativePath) ==
  LET n == normalizedPath(relativePath)
  IN  \E pattern \in ignorePatterns :
        \/ includes(n, <<SLASH, pattern, SLASH>>)
        \/ startsWith(n, <<pattern, SLASH>>)

RECURSIVE splitPath(_, _)
\* the segments of a path, cur being the segment read so far
splitPath(p, cur) ==
  IF p = <<>> THEN <<cur>>
  ELSE IF Head(p) = SLASH THEN <<cur>> \o splitPath(Tail(p), <<>>)
  ELSE splitPath(Tail(p), cur \o <<Head(p)>>)

RECURSIVE resolveSegments(_, _)
\* empty and "." segments dropped, ".." removing the segment before it
resolveSegments(segs, acc) ==
  IF segs = <<>> THEN acc
  ELSE LET h == Head(segs)
       IN  IF h = <<>> \/ h = <<".">> THEN resolveSegments(Tail(segs), acc)
           ELSE IF h = <<"..">>
                THEN resolveSegments(Tail(segs),
                       IF acc = <<>> THEN acc ELSE SubSeq(acc, 1, Len(acc) - 1))
                ELSE resolveSegments(Tail(segs), Append(acc, h))

RECURSIVE joinSegments(_)
joinSegments(segs) ==
  IF segs = <<>> THEN <<>>
  ELSE IF Len(segs) = 1 THEN Head(segs)
  ELSE Head(segs) \o <<SLASH>> \o joinSegments(Tail(segs))

\* vscode.Uri.joinPath(rootUri, relativePath), as the path below the root:
\* the file the path names (<<>> is the root itself)
joinPath(relativePath) == joinSegments(resolveSegments(splitPath(relativePath, <<>>), <<>>))


(***************************************************************************)
(* State.                                                                  *)
(***************************************************************************)
VARIABLES
  sessionHistories,   \* _sessionHistories: session id -> the array it maps to, 0 for none
  heap,               \* the Message arrays allocated so far, an array's index is its identity
  turns,              \* the activations of _handleMessage started so far
  posted,             \* per turn, the messages it posted to the webview, in order
  fs,                 \* the workspace folder: the path of each file below the root -> its bytes
  now,                \* the clock new Date() reads
  workspaceFolders,   \* whether vscode.workspace.workspaceFolders is defined
  env,                \* what the collaborators may still do (budgets of the bounded run)
  requests            \* the commands of the webview handled so far, in order (history variable)

vars == <<sessionHistories, heap, turns, posted, fs, now, workspaceFolders, env, requests>>

\* the session ids of the webview, in the order it first uses them
SessionIds == <<"s1", "s2">>
SessionId == {SessionIds[k] : k \in 1..Len(SessionIds)}
\* the text of the k-th sendMessage
UserTexts == <<<<"u1">>, <<"u2">>, <<"u3">>, <<"u4">>>>

\* the places where an activation of _handleMessage is suspended
AwaitingModel == {"fetch"}
AwaitingTool == {"stat", "copy", "write", "read", "rlRead", "readDirectory",
                 "restoreCopy", "findFiles", "exec"}

(***************************************************************************)
(* The file system behind vscode.workspace.fs.                             *)
(***************************************************************************)
exists(name) == name \in DOMAIN fs

\* a path that names a directory: the root, or a proper ancestor of a file
isDirectory(name) ==
  \/ name = <<>>
  \/ \E f \in DOMAIN fs : startsWith(f, name \o <<SLASH>>)

fsWrite(files, name, bytes) ==
  [n \in DOMAIN files \cup {name} |-> IF n = name THEN bytes ELSE files[n]]

\* the names readDirectory(rootUri) lists: the root's own entries only
rootEntries ==
  {splitPath(f, <<>>)[1] : f \in DOMAIN fs}

\* new Date().toISOString().replace(/[:.]/g, '-'): fixed width, so the order of
\* the strings is the order of the instants; one atom per instant
timestamp(n) == ToString(n)

\* the rank of an atom in the collation order localeCompare uses, for the atoms
\* that can follow ".bak." in a name: digits before letters
atomRank(a) ==
  IF \E n \in 0..9 : ToString(n) = a
  THEN CHOOSE n \in 0..9 : ToString(n) = a
  ELSE IF a = BAK THEN 10 ELSE 11

RECURSIVE localeCompare(_, _)
\* a.localeCompare(b) < 0, on names: a sorts strictly before b
localeCompare(a, b) ==
  IF b = <<>> THEN FALSE
  ELSE IF a = <<>> THEN TRUE
  ELSE IF Head(a) = Head(b) THEN localeCompare(Tail(a), Tail(b))
  ELSE atomRank(Head(a)) < atomRank(Head(b))


(***************************************************************************)
(* _handleMessage.  A context K is what one run of the event loop works    *)
(* on: K.t the activation's locals, K.hist the array `history` refers to,  *)
(* K.posted what the activation posted so far.                             *)
(***************************************************************************)
Message(role, content) == [role |-> role, content |-> content]

statusNote(working) == [type |-> "status", working |-> working]
receiveNote(message) == [type |-> "receiveMessage", message |-> message]
toolCallNote(t, status, result) ==
  [type |-> "toolCall", code |-> t.code, path |-> t.path, status |-> status,
   result |-> result]

\* an entry of K.t.log, the record of what the activation did (history
\* variable): its model calls and their outcomes, the directives it started
\* and ended, the operations it awaited
Ev(ev, n, what) == [ev |-> ev, n |-> n, what |-> what]
logEv(K, ev, n, what) == [K EXCEPT !.t.log = Append(@, Ev(ev, n, what))]

\* an assignment in place of history.push
push_Replace(K, role, content) == [K EXCEPT !.hist = <<Message(role, content)>>]
push(K, role, content) == [K EXCEPT !.hist = Append(@, Message(role, content))]
post(K, note) == [K EXCEPT !.posted = Append(@, note)]

RECURSIVE historyString(_)
\* history.map(msg => `${msg.role}: ${msg.content}`).join('\n\n')
historyString(h) ==
  IF h = <<>> THEN <<>>
  ELSE <<h[1].role, ": ">> \o h[1].content
       \o (IF Len(h) = 1 THEN <<>> ELSE <<"\n\n">> \o historyString(Tail(h)))

\* a prompt built from the last message only
fullMessage_LastOnly(h) ==
  <<"systemPrompt", "\n\n">> \o historyString(<<h[Len(h)]>>) \o <<"\n\nAssistant:">>

\* `${systemPrompt}\n\n${historyString}\n\nAssistant:`
fullMessage(h) == <<"systemPrompt", "\n\n">> \o historyString(h) \o <<"\n\nAssistant:">>

\* a loop exit without the finally block
finish_NoStatus(K) == [K EXCEPT !.t.pc = "done"]

\* finally { postMessage({ type: 'status', working: false }) }
finish(K) == [post(K, statusNote(FALSE)) EXCEPT !.t.pc = "done"]

\* a loop head that lets one more iteration through
startIteration_OneMore(K0) ==
  The({ IF K.t.loopCount <= maxLoops
        THEN logEv([K EXCEPT !.t.loopCount = @ + 1, !.t.pc = "fetch",
                            !.t.calls = @ + 1, !.t.fullMessage = fullMessage(K.hist)],
                  "fetch", K.t.calls + 1, "")
        ELSE finish(K) : K \in {K0} })

\* while (loopCount < maxLoops) { loopCount++; ... await fetch(...)
startIteration(K0) ==
  The({ IF K.t.loopCount < maxLoops
        THEN logEv([K EXCEPT !.t.loopCount = @ + 1, !.t.pc = "fetch",
                            !.t.calls = @ + 1, !.t.fullMessage = fullMessage(K.hist)],
                  "fetch", K.t.calls + 1, "")
        ELSE finish(K) : K \in {K0} })

\* if (!hasToolCalls) break;
\* an iteration end without `if (!hasToolCalls) break`
endIteration_NoBreak(K0) == startIteration(K0)

endIteration(K0) ==
  The({ IF ~K.t.hasToolCalls THEN finish(K) ELSE startIteration(K) : K \in {K0} })

RECURSIVE execLoop(_)

\* the end of the try block of one directive, then the next directive
toolOutput(K0, result) ==
  The({ execLoop(post(push(logEv(K, "out", K.t.index, ""), "System",
                           <<"Tool Output (">> \o K.t.code \o <<"):\n">> \o r),
                      toolCallNote(K.t, "success", r)))
        : K \in {K0}, r \in {result} })

\* the catch block of one directive, then the next directive
\* a catch block that leaves the loop
toolError_Leaves(K0, message) ==
  The({ finish(post(push(logEv(K, "err", K.t.index, ""), "System",
                         <<"Error (">> \o K.t.code \o <<"): ">> \o m),
                    toolCallNote(K.t, "error", m)))
        : K \in {K0}, m \in {message} })

\* a catch block that pushes the message and posts nothing
toolError_Silent(K0, message) ==
  The({ execLoop(push(logEv(K, "err", K.t.index, ""), "System",
                      <<"Error (">> \o K.t.code \o <<"): ">> \o m))
        : K \in {K0}, m \in {message} })

toolError(K0, message) ==
  The({ execLoop(post(push(logEv(K, "err", K.t.index, ""), "System",
                           <<"Error (">> \o K.t.code \o <<"): ">> \o m),
                      toolCallNote(K.t, "error", m)))
        : K \in {K0}, m \in {message} })

\* the activation is suspended on the operation it has just started
await(K0, pc) ==
  The({ logEv([K EXCEPT !.t.pc = pc], "await", K.t.index, pc) : K \in {K0} })

accessDenied(relativePath) == <<"Access denied: \"">> \o relativePath \o <<"\" is ignored.">>

\* _createBackup up to its first await
createBackup(K, op) == await([K EXCEPT !.t.op = op], "stat")

\* a _replaceLines without the test of the two regions
replaceLines_NoTest(K) ==
  The({ IF ~workspaceFolders THEN toolError(K, <<"No workspace">>)
        ELSE await([K EXCEPT !.t.search = IF searchMatch.ok THEN searchMatch.text ELSE <<>>,
                             !.t.replace = IF replaceMatch.ok THEN replaceMatch.text ELSE <<>>],
                   "rlRead")
        : searchMatch \in {regionMatch(K.t.content, SO, SC)},
          replaceMatch \in {regionMatch(K.t.content, RO, RC)} })

\* _replaceLines up to its first await
replaceLines(K) ==
  The({ IF ~workspaceFolders THEN toolError(K, <<"No workspace">>)
        ELSE IF ~searchMatch.ok \/ ~replaceMatch.ok
             THEN toolError(K, <<"Malformed replace_lines content.">>)
        ELSE await([K EXCEPT !.t.search = searchMatch.text,
                             !.t.replace = replaceMatch.text], "rlRead")
        : searchMatch \in {regionMatch(K.t.content, SO, SC)},
          replaceMatch \in {regionMatch(K.t.content, RO, RC)} })

\* _writeFile up to its first await
writeFile(K) ==
  IF ~workspaceFolders THEN toolError(K, <<"No workspace">>)
  ELSE IF isIgnored(K.t.relativePath) THEN toolError(K, accessDenied(K.t.relativePath))
  ELSE createBackup(K, "writeFile")

\* _readFile up to its first await
readFile(K) ==
  IF ~workspaceFolders THEN toolError(K, <<"No workspace">>)
  ELSE IF isIgnored(K.t.relativePath) THEN toolError(K, accessDenied(K.t.relativePath))
  ELSE await(K, "read")

\* a _listFiles without the test of the workspace
listFiles_NoGuard(K) == await(K, "findFiles")

\* _listFiles up to its first await
listFiles(K) ==
  IF ~workspaceFolders THEN toolError(K, <<"No workspace">>) ELSE await(K, "findFiles")

\* _runCommand up to the exec callback
runCommand(K) ==
  IF ~workspaceFolders THEN toolError(K, <<"No workspace">>) ELSE await(K, "exec")

\* _restoreFile up to its first await
restoreFile(K) ==
  IF ~workspaceFolders THEN toolError(K, <<"No workspace">>) ELSE await(K, "readDirectory")

\* a chain in which a directive of an unknown kind does not count as a tool call
dispatch_NotCounted(K0) ==
  The({ IF code = <<"replace_lines">> THEN replaceLines(K)
        ELSE IF code = <<"write_file">> THEN writeFile(K)
        ELSE IF code = <<"read_file">> THEN readFile(K)
        ELSE IF code = <<"list_files">> THEN listFiles(K)
        ELSE IF code = <<"run_command">> THEN runCommand(K)
        ELSE IF code = <<"restore_file">> THEN restoreFile(K)
        ELSE toolOutput([K EXCEPT !.t.hasToolCalls = FALSE], <<>>)
        : K \in {K0}, code \in {K0.t.code} })

\* a chain that ends with an else branch that throws
dispatch_Strict(K0) ==
  The({ IF code = <<"replace_lines">> THEN replaceLines(K)
        ELSE IF code = <<"write_file">> THEN writeFile(K)
        ELSE IF code = <<"read_file">> THEN readFile(K)
        ELSE IF code = <<"list_files">> THEN listFiles(K)
        ELSE IF code = <<"run_command">> THEN runCommand(K)
        ELSE IF code = <<"restore_file">> THEN restoreFile(K)
        ELSE toolError(K, <<"Unknown tool">>)
        : K \in {K0}, code \in {K0.t.code} })

\* the if / else if chain on `code`
dispatch(K0) ==
  The({ IF code = <<"replace_lines">> THEN replaceLines(K)
        ELSE IF code = <<"write_file">> THEN writeFile(K)
        ELSE IF code = <<"read_file">> THEN readFile(K)
        ELSE IF code = <<"list_files">> THEN listFiles(K)
        ELSE IF code = <<"run_command">> THEN runCommand(K)
        ELSE IF code = <<"restore_file">> THEN restoreFile(K)
        ELSE toolOutput(K, <<>>)
        : K \in {K0}, code \in {K0.t.code} })

\* while ((match = toolRegex.exec(answer)) !== null) { ... }, run until the
\* activation is suspended or has ended
execLoop(K0) ==
  The({ The({ IF ~match.ok THEN endIteration(K)
              ELSE The({ dispatch(post(logEv(K1, "run", match.index, ""),
                                       toolCallNote(K1.t, "running", <<>>)))
                         : K1 \in {[K EXCEPT !.t.hasToolCalls = TRUE,
                                             !.t.lastIndex = match.lastIndex,
                                             !.t.code = match.code,
                                             !.t.path = IF match.hasPath THEN match.path
                                                        ELSE <<"undefined">>,
                                             !.t.relativePath = match.path,
                                             !.t.content = match.content,
                                             !.t.index = match.index]} })
              : match \in {toolRegexExec(K.t.answer, K.t.lastIndex)} })
        : K \in {K0} })

\* the locals of a new activation
newTurn(sessionId, history) ==
  [pc |-> "start", sessionId |-> sessionId, history |-> history, loopCount |-> 0,
   calls |-> 0, index |-> 0, log |-> <<>>, fullMessage |-> <<>>, answer |-> <<>>,
   lastIndex |-> 1, hasToolCalls |-> FALSE, code |-> <<>>, path |-> <<>>,
   relativePath |-> <<>>, content |-> <<>>, op |-> "", search |-> <<>>,
   replace |-> <<>>, original |-> <<>>, backupPath |-> <<>>, data |-> <<>>,
   latestBak |-> <<>>]


(***************************************************************************)
(* The model replies of the bounded runs.                                  *)
(***************************************************************************)
Tool(code, path, body) == <<TO, code, TP>> \o path \o <<TE>> \o body \o <<TC>>
ToolNoPath(code, body) == <<TO, code, TE>> \o body \o <<TC>>

PathA == <<"a">>
PathB == <<"b">>
PathIgnored == <<"node_modules", SLASH, "x">>
PathSub == <<"sub", SLASH, "f">>
PathDotEnv == <<".env">>

WriteA1 == <<"ok", SP>> \o Tool("write_file", PathA, <<"1">>)
WriteA2 == Tool("write_file", PathA, <<"2">>)
ReplaceA == Tool("replace_lines", PathA, <<SO, "x", SC, RO, "z", RC>>)
DeniedThenWriteB ==
  Tool("read_file", PathIgnored, <<>>) \o <<SP>> \o Tool("write_file", PathB, <<"1">>)
MissingThenReadA == Tool("read_file", PathB, <<>>) \o Tool("read_file", PathA, <<>>)
NotFoundThenList ==
  Tool("replace_lines", PathA, <<SO, "q", SC, RO, "z", RC>>) \o ToolNoPath("list_files", <<>>)
MalformedThenRun ==
  Tool("replace_lines", PathA, <<SO, "x", SC>>) \o ToolNoPath("run_command", <<SP, "cmd", SP>>)
RestoreThenWriteA == Tool("restore_file", PathA, <<>>) \o Tool("write_file", PathA, <<"3">>)
UnknownKind == Tool("delete_file", PathA, <<>>)
WritesThenRestoreSub ==
  Tool("write_file", PathSub, <<"v1">>) \o Tool("write_file", PathSub, <<"v2">>)
    \o Tool("write_file", PathSub, <<"v3">>) \o Tool("restore_file", PathSub, <<>>)
NoSearch == Tool("replace_lines", PathA, <<RO, "z", RC>>)
ReadDotEnv == Tool("read_file", PathDotEnv, <<>>)
ReplaceIgnored == Tool("replace_lines", PathIgnored, <<SO, "m", SC, RO, "z", RC>>)
ReplaceDollars == Tool("replace_lines", PathA, <<SO, "y", SC, RO, "$", "$", RC>>)
WriteBomThenRead ==
  Tool("write_file", PathB, <<BOM, "c">>) \o Tool("read_file", PathB, <<>>)

\* replies with at least one directive
Replies ==
  {WriteA1, WriteA2, ReplaceA, DeniedThenWriteB, MissingThenReadA, NotFoundThenList,
   MalformedThenRun, RestoreThenWriteA, UnknownKind, WritesThenRestoreSub,
   ReadDotEnv, ReplaceIgnored, ReplaceDollars, WriteBomThenRead, NoSearch}

\* replies without any directive: plain text, and a directive that is never closed
Done == <<"done">>
Unclosed == <<TO, "read_file", TE, "x">>
FinalReplies == {Done, Unclosed}

\* the replies of the runs with several turns in flight
ConcReplies == {WriteA2, ReplaceA, Done}

InitialFiles ==
  (PathA :> <<"x", "y", "x">>) @@ (PathIgnored :> <<"m">>)

\* the bounded runs: several turns in flight with few replies; one turn with any
\* replies; one turn whose model repeats one reply up to the cap of the loop
ConcEnv ==
  [turns |-> MaxTurns, toolReplies |-> MaxToolReplies, clears |-> MaxClears,
   faults |-> 0, replies |-> ConcReplies, ids |-> 0]
SeqEnv ==
  [turns |-> 1, toolReplies |-> MaxToolReplies, clears |-> 0,
   faults |-> MaxFaults, replies |-> Replies \cup FinalReplies, ids |-> 0]
RepEnv(r) ==
  [turns |-> 1, toolReplies |-> maxLoops, clears |-> MaxClears,
   faults |-> 0, replies |-> {r, Done}, ids |-> 0]
Envs == {ConcEnv, SeqEnv} \cup {RepEnv(r) : r \in Replies}

(***************************************************************************)
(* Replies made of directive blocks and plain text, for the parser.        *)
(***************************************************************************)
MaxBlocks == 2

\* a name that starts with a.bak. and is no snapshot
PathBak == <<"a", BAK, "9">>

Blocks ==
  {[code |-> "write_file", hasPath |-> TRUE, path |-> PathA, body |-> <<"\n", "1", "\n">>],
   [code |-> "restore_file", hasPath |-> TRUE, path |-> PathA, body |-> <<>>],
   [code |-> "replace_lines", hasPath |-> TRUE, path |-> PathA,
    body |-> <<SO, "x", SC, RO, "z", RC>>],
   [code |-> "read_file", hasPath |-> TRUE, path |-> PathA, body |-> <<>>],
   [code |-> "list_files", hasPath |-> FALSE, path |-> <<>>, body |-> <<>>],
   [code |-> "run_command", hasPath |-> FALSE, path |-> <<>>, body |-> <<SP, "cmd">>],
   [code |-> "delete_file", hasPath |-> TRUE, path |-> PathA, body |-> <<"\n">>],
   [code |-> "write_file", hasPath |-> TRUE, path |-> PathBak, body |-> <<"w">>]}

PlainTexts == {<<>>, <<SP, "t", SP>>}

\* N blocks and the N + 1 plain texts around them
Gens ==
  UNION {[blocks : [1..N -> Blocks], plains : [1..(N + 1) -> PlainTexts]] : N \in 0..MaxBlocks}

RenderBlock(b) == IF b.hasPath THEN Tool(b.code, b.path, b.body) ELSE ToolNoPath(b.code, b.body)

RECURSIVE RenderUpTo(_, _)
\* the text up to the end of block n
RenderUpTo(g, n) ==
  IF n = 0 THEN <<>>
  ELSE RenderUpTo(g, n - 1) \o g.plains[n] \o RenderBlock(g.blocks[n])

Render(g) == RenderUpTo(g, Len(g.blocks)) \o g.plains[Len(g.blocks) + 1]

\* the run of one turn whose model replies with the text of g, once
ParseEnv(g) ==
  [turns |-> 1, toolReplies |-> 1, clears |-> MaxClears, faults |-> 0,
   replies |-> {Render(g), Done}, ids |-> 0, gen |-> g]

(***************************************************************************)
(* Actions.                                                                *)
(***************************************************************************)
Ctx(i) == [t |-> turns[i], hist |-> heap[turns[i].history], posted |-> posted[i]]

\* one array shared by all sessions
Commit_Shared(i, K0) ==
  \E K \in {K0} :
    /\ turns' = [turns EXCEPT ![i] = K.t]
    /\ heap' = [h \in DOMAIN heap |-> K.hist]
    /\ posted' = [posted EXCEPT ![i] = K.posted]

Commit(i, K0) ==
  \E K \in {K0} :
    /\ turns' = [turns EXCEPT ![i] = K.t]
    /\ heap' = [heap EXCEPT ![K.t.history] = K.hist]
    /\ posted' = [posted EXCEPT ![i] = K.posted]

Init ==
  /\ sessionHistories = [s \in SessionId |-> 0]
  /\ heap = <<>>
  /\ turns = <<>>
  /\ posted = <<>>
  /\ fs = InitialFiles
  /\ now = 1
  /\ env \in Envs
  /\ requests = <<>>
  /\ workspaceFolders \in (IF env = SeqEnv THEN BOOLEAN ELSE {TRUE})

\* the session ids the webview may name: those it has used, and the next one
KnownIds == {SessionIds[k] : k \in 1..(IF env.ids < Len(SessionIds) THEN env.ids + 1 ELSE env.ids)}

\* the ids in use once the webview has named sessionId
idsWith(sessionId) ==
  IF sessionId \in {SessionIds[k] : k \in 1..env.ids} THEN env.ids ELSE env.ids + 1

\* the webview sends sendMessage: _handleMessage up to its first await
SendMessage(userMessage, sessionId) ==
  /\ env.turns > 0
  /\ LET has == sessionHistories[sessionId] # 0
         history == IF has THEN sessionHistories[sessionId] ELSE Len(heap) + 1
         heap1 == IF has THEN heap ELSE Append(heap, <<>>)
         K0 == [t |-> newTurn(sessionId, history), hist |-> heap1[history],
                posted |-> <<>>]
     IN  \E K \in {startIteration(post(push(K0, "User", userMessage), statusNote(TRUE)))} :
           /\ sessionHistories' = [sessionHistories EXCEPT ![sessionId] = history]
           /\ heap' = [heap1 EXCEPT ![history] = K.hist]
           /\ turns' = Append(turns, K.t)
           /\ posted' = Append(posted, K.posted)
  /\ env' = [env EXCEPT !.turns = @ - 1, !.ids = idsWith(sessionId)]
  /\ requests' = Append(requests, <<"sendMessage", sessionId>>)
  /\ UNCHANGED <<fs, now, workspaceFolders>>

\* a clearSession that leaves the store as it is
ClearSession_Keeps(sessionId) ==
  /\ env.clears > 0
  /\ env' = [env EXCEPT !.clears = @ - 1, !.ids = idsWith(sessionId)]
  /\ requests' = Append(requests, <<"clearSession", sessionId>>)
  /\ UNCHANGED <<sessionHistories, heap, turns, posted, fs, now, workspaceFolders>>

\* this._sessionHistories.set(data.sessionId, [])
ClearSession(sessionId) ==
  /\ env.clears > 0
  /\ heap' = Append(heap, <<>>)
  /\ sessionHistories' = [sessionHistories EXCEPT ![sessionId] = Len(heap) + 1]
  /\ env' = [env EXCEPT !.clears = @ - 1, !.ids = idsWith(sessionId)]
  /\ requests' = Append(requests, <<"clearSession", sessionId>>)
  /\ UNCHANGED <<turns, posted, fs, now, workspaceFolders>>

\* this._sessionHistories.delete(data.sessionId)
DeleteSession(sessionId) ==
  /\ env.clears > 0
  /\ sessionHistories' = [sessionHistories EXCEPT ![sessionId] = 0]
  /\ env' = [env EXCEPT !.clears = @ - 1, !.ids = idsWith(sessionId)]
  /\ requests' = Append(requests, <<"deleteSession", sessionId>>)
  /\ UNCHANGED <<heap, turns, posted, fs, now, workspaceFolders>>

\* response.ok: the reply is pushed, its narrative posted, its directives run
\* up to the first await
FetchOk(i, answer) ==
  /\ turns[i].pc = "fetch"
  /\ LET tools == toolMatches(answer, 1) # <<>>
     IN  /\ tools => env.toolReplies > 0
         /\ env' = [env EXCEPT !.toolReplies = IF tools THEN @ - 1 ELSE @]
  /\ LET K0 == logEv([Ctx(i) EXCEPT !.t.answer = answer, !.t.lastIndex = 1,
                                   !.t.hasToolCalls = FALSE],
                    "reply", Len(toolMatches(answer, 1)), "")
     IN  Commit(i, execLoop(post(push(K0, "Assistant", answer),
                                 receiveNote(narrative(answer)))))
  /\ UNCHANGED <<sessionHistories, fs, now, workspaceFolders, requests>>

\* a handler that calls the model again after a non-success status
FetchNotOk_Retry(i) ==
  /\ turns[i].pc = "fetch"
  /\ Commit(i, startIteration(logEv(Ctx(i), "notOk", 0, "")))
  /\ UNCHANGED <<sessionHistories, fs, now, workspaceFolders, env, requests>>

\* !response.ok: throw, the finally block, then the catch of the message handler
FetchNotOk(i) ==
  /\ turns[i].pc = "fetch"
  /\ Commit(i, post(finish(logEv(Ctx(i), "notOk", 0, "")),
                     receiveNote(<<"**Error:** ", "Error: API ", "500">>)))
  /\ UNCHANGED <<sessionHistories, fs, now, workspaceFolders, env, requests>>


\* a write to this name fails: it is a directory, or below a file
blocked(name) ==
  \/ isDirectory(name)
  \/ \E f \in DOMAIN fs : startsWith(name, f \o <<SLASH>>)

\* after `await this._createBackup(...)`: the write of _writeFile, or the
\* replace and the write of _replaceLines, up to the await of fs.writeFile
afterBackup(K) ==
  IF K.t.op = "writeFile"
  THEN await([K EXCEPT !.t.data = encode(K.t.content)], "write")
  ELSE await([K EXCEPT !.t.data =
                encode(replaceFirst(K.t.original, K.t.search, K.t.replace))], "write")

\* fs.stat(fileUri) of _createBackup has completed; the clock has advanced by d
StatDone(i, d) ==
  /\ turns[i].pc = "stat"
  /\ now + d <= MaxClock
  /\ \E K \in {Ctx(i)} : \E name \in {joinPath(K.t.relativePath)} :
         IF exists(name) \/ isDirectory(name)
         THEN /\ now' = now + d
              /\ Commit(i, await([K EXCEPT !.t.backupPath =
                                    K.t.relativePath \o <<BAK, timestamp(now + d)>>], "copy"))
         ELSE /\ d = 0
              /\ now' = now
              /\ Commit(i, afterBackup(K))
  /\ UNCHANGED <<sessionHistories, fs, workspaceFolders, env, requests>>

\* a _createBackup without the catch: a copy that fails ends the directive
CopyDone_Aborts(i, ok) ==
  /\ turns[i].pc = "copy"
  /\ \E K \in {Ctx(i)} :
     \E src \in {joinPath(K.t.relativePath)}, dst \in {joinPath(K.t.backupPath)} :
         /\ IF ok
            THEN /\ exists(src) /\ ~blocked(dst)
                 /\ fs' = fsWrite(fs, dst, fs[src])
                 /\ env' = env
            ELSE /\ (exists(src) /\ ~blocked(dst)) => env.faults > 0
                 /\ fs' = fs
                 /\ env' = [env EXCEPT !.faults =
                              IF exists(src) /\ ~blocked(dst) THEN @ - 1 ELSE @]
         /\ Commit(i, IF ok THEN afterBackup(K)
                      ELSE toolError(logEv(K, "copyFailed", K.t.index, ""), <<"copy failed">>))
  /\ UNCHANGED <<sessionHistories, now, workspaceFolders, requests>>

\* fs.copy(fileUri, backupUri, { overwrite: true }) has completed or failed;
\* a failure is swallowed by the catch of _createBackup
CopyDone(i, ok) ==
  /\ turns[i].pc = "copy"
  /\ \E K \in {Ctx(i)} :
     \E src \in {joinPath(K.t.relativePath)}, dst \in {joinPath(K.t.backupPath)} :
         /\ IF ok
            THEN /\ exists(src) /\ ~blocked(dst)
                 /\ fs' = fsWrite(fs, dst, fs[src])
                 /\ env' = env
            ELSE /\ (exists(src) /\ ~blocked(dst)) => env.faults > 0
                 /\ fs' = fs
                 /\ env' = [env EXCEPT !.faults =
                              IF exists(src) /\ ~blocked(dst) THEN @ - 1 ELSE @]
         /\ Commit(i, afterBackup(IF ok THEN K ELSE logEv(K, "copyFailed", K.t.index, "")))
  /\ UNCHANGED <<sessionHistories, now, workspaceFolders, requests>>

\* fs.writeFile(fileUri, data) has completed or failed
WriteDone(i) ==
  /\ turns[i].pc = "write"
  /\ \E K \in {Ctx(i)} : \E name \in {joinPath(K.t.relativePath)} :
         IF blocked(name)
         THEN /\ fs' = fs
              /\ Commit(i, toolError(K, <<"EISDIR">>))
         ELSE /\ fs' = fsWrite(fs, name, K.t.data)
              /\ Commit(i, toolOutput(K,
                   IF K.t.op = "writeFile"
                   THEN <<"Written to ">> \o K.t.relativePath
                   ELSE <<"Successfully updated ">> \o K.t.relativePath))
  /\ UNCHANGED <<sessionHistories, now, workspaceFolders, env, requests>>

\* fs.readFile(uri) of _readFile has completed or failed
ReadDone(i) ==
  /\ turns[i].pc = "read"
  /\ \E K \in {Ctx(i)} : \E name \in {joinPath(K.t.relativePath)} :
         IF exists(name)
         THEN Commit(i, toolOutput(K, decode(fs[name])))
         ELSE Commit(i, toolError(K, <<"FileNotFound">>))
  /\ UNCHANGED <<sessionHistories, fs, now, workspaceFolders, env, requests>>

\* a _replaceLines that makes the backup without the test of the search text
RlReadDone_NoTest(i) ==
  /\ turns[i].pc = "rlRead"
  /\ \E K \in {Ctx(i)} : \E name \in {joinPath(K.t.relativePath)} :
       IF ~exists(name) THEN Commit(i, toolError(K, <<"FileNotFound">>))
       ELSE Commit(i, createBackup([K EXCEPT !.t.original = decode(fs[name])],
                                   "replaceLines"))
  /\ UNCHANGED <<sessionHistories, fs, now, workspaceFolders, env, requests>>

\* fs.readFile(fileUri) of _replaceLines has completed or failed
RlReadDone(i) ==
  /\ turns[i].pc = "rlRead"
  /\ \E K \in {Ctx(i)} : \E name \in {joinPath(K.t.relativePath)} :
     LET original == decode(fs[name])
     IN  IF ~exists(name) THEN Commit(i, toolError(K, <<"FileNotFound">>))
         ELSE IF ~includes(original, K.t.search)
              THEN Commit(i, toolError(K, <<"Search string not found in \"">>
                                           \o K.t.relativePath \o <<"\".">>))
         ELSE Commit(i, createBackup([K EXCEPT !.t.original = original], "replaceLines"))
  /\ UNCHANGED <<sessionHistories, fs, now, workspaceFolders, env, requests>>

\* the names of the root that start with relativePath + '.bak.'
baks(relativePath) == {n \in rootEntries : startsWith(n, relativePath \o <<BAK>>)}

\* the names sort() with (a, b) => b[0].localeCompare(a[0]) may put first
latest(names) == {n \in names : \A m \in names : ~localeCompare(n, m)}

\* fs.readDirectory(rootUri) of _restoreFile has completed
ReadDirectoryDone(i, latestBak) ==
  /\ turns[i].pc = "readDirectory"
  /\ LET K == Ctx(i)
         found == baks(K.t.relativePath)
     IN  IF found = {}
         THEN /\ latestBak = <<>>
              /\ Commit(i, toolError(K, <<"No backups found for \"">>
                                        \o K.t.relativePath \o <<"\"">>))
         ELSE /\ latestBak \in latest(found)
              /\ Commit(i, await([K EXCEPT !.t.latestBak = latestBak], "restoreCopy"))
  /\ UNCHANGED <<sessionHistories, fs, now, workspaceFolders, env, requests>>

\* a restore that moves the backup to the file
RestoreCopyDone_Consumes(i) ==
  /\ turns[i].pc = "restoreCopy"
  /\ \E K \in {Ctx(i)} :
     \E src \in {joinPath(K.t.latestBak)}, dst \in {joinPath(K.t.relativePath)} :
         IF exists(src) /\ ~blocked(dst)
         THEN /\ fs' = [n \in (DOMAIN fs \ {src}) \cup {dst} |->
                          IF n = dst THEN fs[src] ELSE fs[n]]
              /\ Commit(i, toolOutput(K, <<"Restored \"">> \o K.t.relativePath
                                         \o <<"\" from backup.">>))
         ELSE /\ fs' = fs
              /\ Commit(i, toolError(K, <<"FileNotFound">>))
  /\ UNCHANGED <<sessionHistories, now, workspaceFolders, env, requests>>

\* fs.copy(bakUri, fileUri, { overwrite: true }) of _restoreFile has completed or failed
RestoreCopyDone(i) ==
  /\ turns[i].pc = "restoreCopy"
  /\ \E K \in {Ctx(i)} :
     \E src \in {joinPath(K.t.latestBak)}, dst \in {joinPath(K.t.relativePath)} :
         IF exists(src) /\ ~blocked(dst)
         THEN /\ fs' = fsWrite(fs, dst, fs[src])
              /\ Commit(i, toolOutput(K, <<"Restored \"">> \o K.t.relativePath
                                         \o <<"\" from backup.">>))
         ELSE /\ fs' = fs
              /\ Commit(i, toolError(K, <<"FileNotFound">>))
  /\ UNCHANGED <<sessionHistories, now, workspaceFolders, env, requests>>

\* a file findFiles('**/*', '**/{...}/**') leaves out: one below a directory
\* with an ignored name
excluded(f) ==
  LET segs == splitPath(f, <<>>)
  IN  \E k \in 1..(Len(segs) - 1) : \E pattern \in ignorePatterns : segs[k] = <<pattern>>

RECURSIVE joinLines(_)
\* files.map(...).join('\n'), in one order of the walk
joinLines(names) ==
  IF names = {} THEN <<>>
  ELSE LET n == CHOOSE x \in names : \A y \in names : Len(x) <= Len(y)
       IN  n \o (IF names = {n} THEN <<>> ELSE <<"\n">> \o joinLines(names \ {n}))

\* findFiles of _listFiles has completed
FindFilesDone(i) ==
  /\ turns[i].pc = "findFiles"
  /\ Commit(i, toolOutput(Ctx(i), joinLines({f \in DOMAIN fs : ~excluded(f)})))
  /\ UNCHANGED <<sessionHistories, fs, now, workspaceFolders, env, requests>>

ExecOutcomes == {"exit0", "exit1", "spawnFailed"}

\* what the callback of cp.exec resolves the promise with
\* an exit code that is not reported
execResult_Plain(outcome) == <<"out">>

execResult(outcome) ==
  IF outcome = "exit0" THEN <<"out">>
  ELSE IF outcome = "exit1" THEN <<"Exit Code: ", "1", "\n", "out">>
  ELSE <<"Exit Code: ", "ENOENT", "\n">>

\* the callback of cp.exec has run; a command that fails takes one of the
\* faults of the run
ExecDone(i, outcome) ==
  /\ turns[i].pc = "exec"
  /\ outcome # "exit0" => env.faults > 0
  /\ env' = [env EXCEPT !.faults = IF outcome # "exit0" THEN @ - 1 ELSE @]
  /\ Commit(i, toolOutput(Ctx(i), execResult(outcome)))
  /\ UNCHANGED <<sessionHistories, fs, now, workspaceFolders, requests>>

Turn == 1..Len(turns)

Next ==
  \/ \E sessionId \in KnownIds : SendMessage(UserTexts[Len(turns) + 1], sessionId)
  \/ \E sessionId \in KnownIds : ClearSession(sessionId)
  \/ \E sessionId \in KnownIds : DeleteSession(sessionId)
  \/ \E i \in Turn, answer \in env.replies : FetchOk(i, answer)
  \/ \E i \in Turn : FetchNotOk(i)
  \/ \E i \in Turn, d \in 0..1 : StatDone(i, d)
  \/ \E i \in Turn, ok \in BOOLEAN : CopyDone(i, ok)
  \/ \E i \in Turn : WriteDone(i)
  \/ \E i \in Turn : ReadDone(i)
  \/ \E i \in Turn : RlReadDone(i)
  \/ \E i \in Turn, latestBak \in rootEntries \cup {<<>>} : ReadDirectoryDone(i, latestBak)
  \/ \E i \in Turn : RestoreCopyDone(i)
  \/ \E i \in Turn : FindFilesDone(i)
  \/ \E i \in Turn, outcome \in ExecOutcomes : ExecDone(i, outcome)

Spec == Init /\ [][Next]_vars


\* one more step of activation i: the operation it awaits completes
Progress(i) ==
  /\ i \in Turn
  /\ \/ \E answer \in env.replies : FetchOk(i, answer)
     \/ FetchNotOk(i)
     \/ \E d \in 0..1 : StatDone(i, d)
     \/ \E ok \in BOOLEAN : CopyDone(i, ok)
     \/ WriteDone(i)
     \/ ReadDone(i)
     \/ RlReadDone(i)
     \/ \E latestBak \in rootEntries \cup {<<>>} : ReadDirectoryDone(i, latestBak)
     \/ RestoreCopyDone(i)
     \/ FindFilesDone(i)
     \/ \E outcome \in ExecOutcomes : ExecDone(i, outcome)

\* the runs on the replies made of blocks
ParseInit ==
  /\ sessionHistories = [s \in SessionId |-> 0]
  /\ heap = <<>>
  /\ turns = <<>>
  /\ posted = <<>>
  /\ fs = InitialFiles
  /\ now = 1
  /\ env \in {ParseEnv(g) : g \in Gens}
  /\ requests = <<>>
  /\ workspaceFolders = TRUE

ParseSpec == ParseInit /\ [][Next]_vars

\* the runs of one turn
InitOneTurn == Init /\ env.turns = 1

\* every model call and every tool operation eventually completes
FairSpec == InitOneTurn /\ [][Next]_vars /\ \A i \in 1..MaxTurns : WF_vars(Progress(i))

(***************************************************************************)
(* Reading the record of an activation.                                    *)
(***************************************************************************)
Log(i) == turns[i].log
Positions(i, ev) == {k \in 1..Len(Log(i)) : Log(i)[k].ev = ev}
Count(i, ev) == Cardinality(Positions(i, ev))

\* the activation is the only one that holds its array
SoleHolder(i) == \A j \in Turn : turns[j].history = turns[i].history => j = i

Last(q) == q[Len(q)]

\* the position of the first model call after position k, or one past the end
NextFetch(i, k) ==
  LET later == {j \in Positions(i, "fetch") : j > k}
  IN  IF later = {} THEN Len(Log(i)) + 1 ELSE CHOOSE j \in later : \A m \in later : j <= m

\* the iteration of the reply at position k is over
Closed(i, k) == NextFetch(i, k) <= Len(Log(i)) \/ turns[i].pc = "done"

\* the entries of the iteration of the reply at position k that follow the reply
Segment(i, k) == SubSeq(Log(i), k + 1, NextFetch(i, k) - 1)

RECURSIVE Filter(_, _)
Filter(q, evs) ==
  IF q = <<>> THEN <<>>
  ELSE (IF Head(q).ev \in evs THEN <<Head(q)>> ELSE <<>>) \o Filter(Tail(q), evs)

RECURSIVE Ascending(_)
\* the members of a set of numbers, in increasing order
Ascending(S) ==
  IF S = {} THEN <<>>
  ELSE LET m == CHOOSE x \in S : \A y \in S : x <= y
       IN  <<m>> \o Ascending(S \ {m})

\* the turn-fatal error notifications activation i posted
ErrorNotes(i) ==
  {k \in 1..Len(posted[i]) :
     /\ posted[i][k].type = "receiveMessage"
     /\ startsWith(posted[i][k].message, <<"**Error:** ">>)}

(***************************************************************************)
(* C1.  A turn makes at most maxLoops model calls; a turn that has ended   *)
(* and whose every reply held a directive made exactly maxLoops calls, and *)
(* the last message it appended is a System message.                       *)
(***************************************************************************)
C1_LoopBound ==
  \A i \in Turn :
    /\ Count(i, "fetch") <= maxLoops
    /\ ( /\ turns[i].pc = "done"
         /\ Count(i, "notOk") = 0
         /\ \A k \in Positions(i, "reply") : Log(i)[k].n > 0 )
       => /\ Count(i, "fetch") = maxLoops
          /\ Count(i, "reply") = maxLoops
          /\ Last(Filter(Log(i), {"reply", "out", "err"})).ev \in {"out", "err"}
          /\ SoleHolder(i) => Last(heap[turns[i].history]).role = "System"

C1_Witness ==
  \E i \in Turn :
    /\ turns[i].pc = "done"
    /\ Count(i, "reply") = maxLoops
    /\ \A k \in Positions(i, "reply") : Log(i)[k].n > 0
    /\ Last(heap[turns[i].history]).role = "System"

(***************************************************************************)
(* C2.  A reply without any directive ends the turn: it is the last thing  *)
(* the turn did, no model call and no tool operation follows it.           *)
(***************************************************************************)
C2_FinalAnswerEnds ==
  \A i \in Turn :
    \A k \in Positions(i, "reply") :
      Log(i)[k].n = 0 =>
        /\ k = Len(Log(i))
        /\ turns[i].pc = "done"
        /\ Count(i, "fetch") = Count(i, "reply")
        /\ turns[i].loopCount = Count(i, "reply")

C2_Witness ==
  \E i \in Turn :
    /\ Count(i, "reply") >= 2
    /\ Last(Log(i)).ev = "reply" /\ Last(Log(i)).n = 0
    /\ turns[i].pc = "done"

(***************************************************************************)
(* C3.  With every model call and tool operation completing, every turn    *)
(* that was started ends and posts the working = false status.             *)
(***************************************************************************)
C3_TurnEnds ==
  \A i \in 1..MaxTurns :
    [](Len(turns) >= i =>
         <>( /\ Len(turns) >= i
             /\ turns[i].pc = "done"
             /\ \E k \in 1..Len(posted[i]) : posted[i][k] = statusNote(FALSE) ))

C3_Witness ==
  \E i \in Turn :
    /\ turns[i].pc = "done"
    /\ Count(i, "notOk") = 1
    /\ Count(i, "out") > 0
    /\ \E k \in 1..Len(posted[i]) : posted[i][k] = statusNote(FALSE)

(***************************************************************************)
(* C4.  A model call that is answered with a non-success status ends the   *)
(* turn: nothing follows it, no Assistant message stands for it, and the   *)
(* turn posts exactly one error notification.                              *)
(***************************************************************************)
C4_ModelErrorAborts ==
  \A i \in Turn :
    \A k \in Positions(i, "notOk") :
      /\ k = Len(Log(i))
      /\ turns[i].pc = "done"
      /\ Count(i, "notOk") = 1
      /\ Count(i, "reply") = Count(i, "fetch") - 1
      /\ SoleHolder(i) =>
           Cardinality({m \in 1..Len(heap[turns[i].history]) :
                          heap[turns[i].history][m].role = "Assistant"}) = Count(i, "reply")
      /\ Cardinality(ErrorNotes(i)) = 1

C4_Witness ==
  \E i \in Turn :
    /\ Count(i, "notOk") = 1
    /\ Count(i, "fetch") >= 2
    /\ Cardinality(ErrorNotes(i)) = 1

(***************************************************************************)
(* C5.  A directive that fails does not end the loop: every iteration that *)
(* is over has started every directive of its reply, and it was followed   *)
(* by another model call unless the cap was reached.                       *)
(***************************************************************************)
C5_FailureDoesNotAbort ==
  \A i \in Turn :
    \A k \in Positions(i, "reply") :
      (Log(i)[k].n > 0 /\ Closed(i, k)) =>
        /\ Len(Filter(Segment(i, k), {"run"})) = Log(i)[k].n
        /\ Len(Filter(Segment(i, k), {"out", "err"})) = Log(i)[k].n
        /\ NextFetch(i, k) <= Len(Log(i)) \/ Count(i, "fetch") = maxLoops

\* a failed directive that is not the last of its reply, in an iteration
\* that was followed by a model call
C5_Witness ==
  \E i \in Turn :
    \E k \in Positions(i, "reply") :
      /\ NextFetch(i, k) <= Len(Log(i))
      /\ \E a, b \in 1..Len(Segment(i, k)) :
           /\ a < b
           /\ Segment(i, k)[a].ev = "err"
           /\ Segment(i, k)[b].ev = "out"

(***************************************************************************)
(* C6.  The directives of a reply run one at a time in the order of the    *)
(* text: each starts after the one before it has ended and its System      *)
(* message is in history, so the System messages follow the text's order.  *)
(***************************************************************************)
\* where the directives of a reply start, in the order of the text
DirectiveStarts(answer) == Ascending({p \in 1..Len(answer) : matchAt(answer, p).ok})

RECURSIVE StartEnd(_)
\* start, end, start, end, ... of the directives at the positions given
StartEnd(starts) ==
  IF starts = <<>> THEN <<>>
  ELSE <<<<"start", Head(starts)>>, <<"end", Head(starts)>>>> \o StartEnd(Tail(starts))

RECURSIVE AsStartEnd(_)
AsStartEnd(q) ==
  IF q = <<>> THEN <<>>
  ELSE <<<<IF Head(q).ev = "run" THEN "start" ELSE "end", Head(q).n>>>> \o AsStartEnd(Tail(q))

\* the System messages behind the last Assistant message of an array
RECURSIVE SystemTail(_)
SystemTail(h) ==
  IF h = <<>> \/ Last(h).role # "System" THEN <<>>
  ELSE Append(SystemTail(SubSeq(h, 1, Len(h) - 1)), Last(h))

\* a System message is the one of a directive of this kind
IsMessageOf(msg, code) ==
  \/ startsWith(msg.content, <<"Tool Output (">> \o code \o <<"):\n">>)
  \/ startsWith(msg.content, <<"Error (">> \o code \o <<"): ">>)

C6_DirectiveOrder ==
  \A i \in Turn :
    Count(i, "reply") > 0 =>
      LET k == CHOOSE m \in Positions(i, "reply") : \A j \in Positions(i, "reply") : j <= m
          done == AsStartEnd(Filter(Segment(i, k), {"run", "out", "err"}))
          starts == DirectiveStarts(turns[i].answer)
          want == StartEnd(starts)
          msgs == SystemTail(heap[turns[i].history])
      IN  /\ Len(done) <= Len(want)
          /\ done = SubSeq(want, 1, Len(done))
          /\ (SoleHolder(i) /\ NextFetch(i, k) > Len(Log(i))) =>
               /\ Len(msgs) = Len(Filter(Segment(i, k), {"out", "err"}))
               /\ \A m \in 1..Len(msgs) :
                    IsMessageOf(msgs[m], matchAt(turns[i].answer, starts[m]).code)

\* the second directive of a reply has ended, after the first
C6_Witness ==
  \E i \in Turn :
    /\ SoleHolder(i)
    /\ Len(DirectiveStarts(turns[i].answer)) = 2
    /\ Len(SystemTail(heap[turns[i].history])) = 2
    /\ ~IsMessageOf(heap[turns[i].history][Len(heap[turns[i].history])],
                    matchAt(turns[i].answer, DirectiveStarts(turns[i].answer)[1]).code)

(***************************************************************************)
(* C7.  For every session id at most one model call or tool operation is   *)
(* outstanding at any time, also when a second sendMessage for the id      *)
(* arrives while a turn of the session awaits the model or a tool.         *)
(***************************************************************************)
Outstanding(sessionId) ==
  {i \in Turn : /\ turns[i].sessionId = sessionId
                /\ turns[i].pc \in AwaitingModel \cup AwaitingTool}

C7_OneOutstanding ==
  \A sessionId \in SessionId : Cardinality(Outstanding(sessionId)) <= 1

(***************************************************************************)
(* C8.  Whenever a turn of session id is in flight and id is in the store, *)
(* the array the turn reads its prompts from and appends to is the array   *)
(* the store holds for id, also after a clearSession(id).                  *)
(***************************************************************************)
C8_TurnUsesStoreHistory ==
  \A i \in Turn :
    (turns[i].pc # "done" /\ sessionHistories[turns[i].sessionId] # 0)
      => turns[i].history = sessionHistories[turns[i].sessionId]

(***************************************************************************)
(* C9.  Right after clearSession(id) the store holds id with an empty      *)
(* history; right after deleteSession(id) the store does not hold id; a    *)
(* sendMessage(text, id) for an id the store does not hold creates the     *)
(* session with a history whose only message is the User message text.     *)
(***************************************************************************)
\* this step handles the request `kind` for sessionId
Handles(kind, sessionId) == requests' = Append(requests, <<kind, sessionId>>)

C9_SessionLifecycle ==
  [][ \A sessionId \in SessionId :
        /\ Handles("clearSession", sessionId) =>
             /\ sessionHistories'[sessionId] # 0
             /\ heap'[sessionHistories'[sessionId]] = <<>>
        /\ Handles("deleteSession", sessionId) =>
             sessionHistories'[sessionId] = 0
        /\ (Handles("sendMessage", sessionId) /\ sessionHistories[sessionId] = 0) =>
             /\ sessionHistories'[sessionId] # 0
             /\ heap'[sessionHistories'[sessionId]]
                  = <<Message("User", UserTexts[Len(turns) + 1])>> ]_vars

\* a session that was used, deleted and used again; another that was cleared
C9_Witness ==
  /\ Len(requests) = 3
  /\ requests[1] = <<"sendMessage", "s1">>
  /\ requests[2] = <<"deleteSession", "s1">>
  /\ requests[3] = <<"sendMessage", "s1">>
  /\ sessionHistories["s1"] # 0
  /\ heap[sessionHistories["s1"]] = <<Message("User", UserTexts[2])>>
  /\ Len(heap[turns[1].history]) >= 1
  /\ turns[1].history # sessionHistories["s1"]

(***************************************************************************)
(* C10.  Every write_file, replace_lines and restore_file that overwrites  *)
(* an existing live file has first made a backup that holds the content    *)
(* the file had before the operation; no backup is made of a file that     *)
(* does not exist.  Stated for the runs of one turn in which no copy to a  *)
(* backup failed.                                                          *)
(***************************************************************************)
\* a live file: not a backup
Live(name) == ~includes(name, <<BAK>>)

C10_BackupBeforeOverwrite ==
  [][ (Len(turns) = 1 /\ Count(1, "copyFailed") = 0) =>
        /\ \A name \in DOMAIN fs :
             (Live(name) /\ fs'[name] # fs[name]) =>
               \E b \in DOMAIN fs : /\ startsWith(b, name \o <<BAK>>)
                                    /\ fs[b] = fs[name]
        /\ \A b \in DOMAIN fs' \ DOMAIN fs :
             ~Live(b) => \E name \in DOMAIN fs : /\ Live(name)
                                                 /\ startsWith(b, name \o <<BAK>>)
                                                 /\ fs'[b] = fs[name] ]_vars

(***************************************************************************)
(* Backups.                                                                *)
(***************************************************************************)
\* the backup records of the file `name` among `files`
BackupsOf(files, name) == {b \in DOMAIN files : startsWith(b, name \o <<BAK>>)}

CountIn(q, ev) == Cardinality({k \in 1..Len(q) : q[k].ev = ev})

\* activation i leaves the await `pc` in this step
Leaves(i, pc) == turns[i].pc = pc /\ turns'[i] # turns[i]

(***************************************************************************)
(* C11.  A write_file to a file that exists adds exactly one backup record *)
(* of it, holding the content the file had before the write; a write_file  *)
(* to a file that does not exist leaves the backup records as they are.    *)
(* Stated for the runs of one turn in which no copy to a backup failed.    *)
(***************************************************************************)
C11_WriteAddsOneBackup ==
  [][ \A i \in Turn :
        (Len(turns) = 1 /\ turns[i].op = "writeFile"
           /\ CountIn(turns'[i].log, "copyFailed") = 0) =>
          LET name == joinPath(turns[i].relativePath)
              old == BackupsOf(fs, name)
              new == BackupsOf(fs', name)
          IN  /\ Leaves(i, "copy") =>
                   /\ Cardinality(new) = Cardinality(old) + 1
                   /\ \A b \in new \ old : fs'[b] = fs[name]
              /\ (Leaves(i, "stat") \/ Leaves(i, "write")) =>
                   /\ new = old
                   /\ \A b \in old : fs'[b] = fs[b] ]_vars

(***************************************************************************)
(* C12.  Two snapshots of one path get distinct names, the later one the   *)
(* greater: a snapshot never overwrites a backup record that exists, and   *)
(* its name sorts after every backup record of the path.                   *)
(***************************************************************************)
C12_SnapshotNamesIncrease ==
  [][ \A i \in Turn :
        (Leaves(i, "copy") /\ fs' # fs) =>
          LET name == joinPath(turns[i].relativePath)
              dst == joinPath(turns[i].backupPath)
          IN  /\ dst \notin DOMAIN fs
              /\ \A b \in BackupsOf(fs, name) : localeCompare(b, dst) ]_vars

\* the position in the record of the last reply of activation i
LastReply(i) == CHOOSE m \in Positions(i, "reply") : \A j \in Positions(i, "reply") : j <= m

\* how the directive at `index` of the last reply ended: "out", "err", or
\* "none" while it has not ended
Outcome(i, index) ==
  LET seg == Segment(i, LastReply(i))
      ends == {k \in 1..Len(seg) : seg[k].ev \in {"out", "err"} /\ seg[k].n = index}
  IN  IF ends = {} THEN "none" ELSE seg[CHOOSE k \in ends : TRUE].ev

\* what activation i recorded in this step
StepEvents(i) == SubSeq(turns'[i].log, Len(turns[i].log) + 1, Len(turns'[i].log))

(***************************************************************************)
(* C13.  For a path that is not ignored and did not exist, at the root or  *)
(* in a subdirectory: after write_file v1, v2, v3 to it, restore_file of   *)
(* it succeeds and leaves the file with the content v2.  Stated for the    *)
(* first reply of the runs of one turn.                                    *)
(***************************************************************************)
C13_RestoreYieldsPrevious ==
  \A i \in Turn :
    (Len(turns) = 1 /\ Count(i, "reply") = 1) =>
      LET ms == toolMatches(turns[i].answer, 1)
      IN  ( /\ Len(ms) = 4
            /\ \A k \in 1..3 : ms[k].code = <<"write_file">> /\ ms[k].path = ms[4].path
            /\ ms[4].code = <<"restore_file">>
            /\ ~isIgnored(ms[4].path)
            /\ joinPath(ms[4].path) \notin DOMAIN InitialFiles
            /\ \A k \in 1..3 : Outcome(i, ms[k].index) = "out"
            /\ Outcome(i, ms[4].index) # "none" )
          => /\ Outcome(i, ms[4].index) = "out"
             /\ fs[joinPath(ms[4].path)] = encode(ms[2].content)

(***************************************************************************)
(* C14.  restore_file fails with "No backups found" exactly when the path  *)
(* has no backup record, and then the files are left as they are.          *)
(***************************************************************************)
C14_NoBackupFoundExactly ==
  [][ \A i \in Turn :
        Leaves(i, "readDirectory") =>
          LET noBackupFound == StepEvents(i)[1].ev = "err"
          IN  /\ noBackupFound <=> BackupsOf(fs, joinPath(turns[i].relativePath)) = {}
              /\ noBackupFound => fs' = fs ]_vars

(***************************************************************************)
(* C15.  A read_file or write_file whose path starts with or contains an   *)
(* ignored name as a path segment fails with "Access denied" and does no   *)
(* file I/O: it awaits no read, stat, copy or write.                       *)
(***************************************************************************)
\* a segment of the path is one of the ignored names
HasIgnoredSegment(relativePath) ==
  LET segs == splitPath(normalizedPath(relativePath), <<>>)
  IN  \E k \in 1..Len(segs) : \E pattern \in ignorePatterns : segs[k] = <<pattern>>

C15_IgnoredPathDenied ==
  \A i \in Turn :
    ( /\ turns[i].code \in {<<"read_file">>, <<"write_file">>}
      /\ HasIgnoredSegment(turns[i].relativePath) )
    => /\ turns[i].pc \notin AwaitingTool
       /\ Outcome(i, turns[i].index) # "none" =>
            /\ Outcome(i, turns[i].index) = "err"
            /\ workspaceFolders =>
                 \E k \in 1..Len(posted[i]) :
                   /\ posted[i][k].type = "toolCall"
                   /\ posted[i][k].status = "error"
                   /\ posted[i][k].result = accessDenied(turns[i].relativePath)

(***************************************************************************)
(* C16.  The ignore list holds for every kind of directive: no step        *)
(* creates, changes or backs up a file under an ignored directory, and no  *)
(* read of such a file is ever awaited.                                    *)
(***************************************************************************)
C16_IgnoreListEverywhere ==
  [][ /\ \A name \in DOMAIN fs' :
           excluded(name) => name \in DOMAIN fs /\ fs'[name] = fs[name]
      /\ \A i \in 1..Len(turns') :
           turns'[i].pc \in {"read", "rlRead"} =>
             ~excluded(joinPath(turns'[i].relativePath)) ]_vars

(***************************************************************************)
(* C17.  A replace_lines whose body lacks the <search> region or the       *)
(* <replace> region fails at once, with "Malformed replace_lines content." *)
(* when a workspace is open, and changes no file: the step that starts the *)
(* directive ends it with an error, awaits nothing and leaves the files as *)
(* they are.                                                               *)
(***************************************************************************)
Malformed(content) == ~regionMatch(content, SO, SC).ok \/ ~regionMatch(content, RO, RC).ok

\* the step starts a replace_lines directive with a malformed body, as the
\* k-th thing activation i records in it
StartsMalformed(i, k) ==
  /\ StepEvents(i)[k].ev = "run"
  /\ LET m == matchAt(turns'[i].answer, StepEvents(i)[k].n)
     IN  m.code = <<"replace_lines">> /\ Malformed(m.content)

C17_MalformedReplaceFails ==
  [][ \A i \in Turn : \A k \in 1..Len(StepEvents(i)) :
        StartsMalformed(i, k) =>
          /\ k < Len(StepEvents(i))
          /\ StepEvents(i)[k + 1] = Ev("err", StepEvents(i)[k].n, "")
          /\ fs' = fs
          /\ workspaceFolders =>
               \E j \in (Len(posted[i]) + 1)..Len(posted'[i]) :
                 /\ posted'[i][j].type = "toolCall"
                 /\ posted'[i][j].status = "error"
                 /\ posted'[i][j].code = <<"replace_lines">>
                 /\ posted'[i][j].result = <<"Malformed replace_lines content.">> ]_vars

\* one directive without <replace> and one without <search> have failed
C17_Witness ==
  \E i \in Turn :
    /\ \E j \in 1..Len(posted[i]) :
         /\ posted[i][j].type = "toolCall" /\ posted[i][j].status = "error"
         /\ posted[i][j].result = <<"Malformed replace_lines content.">>
    /\ \E k \in Positions(i, "reply") : Log(i)[k].n = 2
    /\ Count(i, "reply") = 2
    /\ turns[i].answer = NoSearch
    /\ Outcome(i, 1) = "err"
    /\ fs = InitialFiles

(***************************************************************************)
(* C18.  A replace_lines on a file that contains the search text rewrites  *)
(* the file to its content with the first occurrence of the search text    *)
(* replaced by the replace text, taken literally; the rest is unchanged.   *)
(* Stated for the runs of one turn.                                        *)
(***************************************************************************)
\* s with its first occurrence of search replaced by the text rep itself
literalFirst(s, search, rep) ==
  LET k == indexOf(s, search, 1)
  IN  IF k = 0 THEN s
      ELSE SubSeq(s, 1, k - 1) \o rep \o SubSeq(s, k + Len(search), Len(s))

C18_ReplacesFirstOnly ==
  [][ \A i \in Turn :
        ( /\ Len(turns) = 1
          /\ Leaves(i, "write")
          /\ turns[i].op = "replaceLines"
          /\ StepEvents(i)[1].ev = "out" ) =>
          LET name == joinPath(turns[i].relativePath)
          IN  fs'[name] = encode(literalFirst(decode(fs[name]), turns[i].search,
                                              turns[i].replace)) ]_vars

(***************************************************************************)
(* C19.  A replace_lines on a file that does not contain the search text   *)
(* fails with "Search string not found", leaves the files as they are and  *)
(* makes no backup; a backup is begun only once the search text was found  *)
(* in the content read.                                                    *)
(***************************************************************************)
searchNotFound(relativePath) ==
  <<"Search string not found in \"">> \o relativePath \o <<"\".">>

C19_SearchNotFound ==
  [][ \A i \in Turn :
        /\ ( /\ Leaves(i, "rlRead")
             /\ exists(joinPath(turns[i].relativePath))
             /\ ~includes(decode(fs[joinPath(turns[i].relativePath)]), turns[i].search) )
           => /\ StepEvents(i)[1] = Ev("err", turns[i].index, "")
              /\ fs' = fs
              /\ \E j \in (Len(posted[i]) + 1)..Len(posted'[i]) :
                   /\ posted'[i][j].type = "toolCall"
                   /\ posted'[i][j].status = "error"
                   /\ posted'[i][j].result = searchNotFound(turns[i].relativePath)
        /\ (turns'[i].pc \in {"stat", "copy"} /\ turns'[i].op = "replaceLines")
           => includes(turns'[i].original, turns'[i].search) ]_vars

\* a replace_lines has failed for the search text, with the files untouched
C19_Witness ==
  \E i \in Turn :
    /\ \E j \in 1..Len(posted[i]) :
         /\ posted[i][j].type = "toolCall" /\ posted[i][j].status = "error"
         /\ posted[i][j].result = searchNotFound(PathA)
    /\ Count(i, "await") >= 2
    /\ fs = InitialFiles

(***************************************************************************)
(* C20.  A write_file of content c to a path that is not ignored, followed *)
(* by a read_file of the path with nothing written to it in between,       *)
(* returns exactly c.  Stated for two directives that follow each other in *)
(* the first reply of the runs of one turn.                                *)
(***************************************************************************)
C20_WriteThenRead ==
  \A i \in Turn :
    (Len(turns) = 1 /\ Count(i, "reply") = 1) =>
      LET ms == toolMatches(turns[i].answer, 1)
      IN  \A k \in 1..(Len(ms) - 1) :
            ( /\ ms[k].code = <<"write_file">>
              /\ ms[k + 1].code = <<"read_file">>
              /\ ms[k + 1].path = ms[k].path
              /\ ~isIgnored(ms[k].path)
              /\ Outcome(i, ms[k].index) = "out"
              /\ Outcome(i, ms[k + 1].index) = "out" )
            => \E j \in 1..Len(posted[i]) :
                 /\ posted[i][j].type = "toolCall"
                 /\ posted[i][j].status = "success"
                 /\ posted[i][j].code = <<"read_file">>
                 /\ posted[i][j].result = ms[k].content

(***************************************************************************)
(* C21.  For a text made of N well-formed blocks that are not nested, with *)
(* plain text around them, the parser yields exactly the N directives, in  *)
(* the order of the text, each body ending at the first end marker after   *)
(* its start marker, and the narrative posted holds none of the blocks: it *)
(* is the plain text, trimmed.                                             *)
(***************************************************************************)
\* where block k of g starts in the text
StartOf(g, k) == Len(RenderUpTo(g, k - 1) \o g.plains[k]) + 1

RECURSIVE PlainUpTo(_, _)
PlainUpTo(g, n) == IF n = 0 THEN <<>> ELSE PlainUpTo(g, n - 1) \o g.plains[n]

C21_ParserYieldsBlocks ==
  \A i \in Turn :
    (Count(i, "reply") >= 1 /\ turns[i].answer = Render(env.gen)) =>
      LET g == env.gen
          N == Len(g.blocks)
          ms == toolMatches(turns[i].answer, 1)
      IN  /\ Len(ms) = N
          /\ \A k \in 1..N :
               /\ ms[k].index = StartOf(g, k)
               /\ ms[k].code = <<g.blocks[k].code>>
               /\ ms[k].hasPath = g.blocks[k].hasPath
               /\ ms[k].path = g.blocks[k].path
               /\ ms[k].content = g.blocks[k].body
               /\ ms[k].lastIndex = Len(RenderUpTo(g, k)) + 1
               /\ turns[i].answer[ms[k].lastIndex - 1] = TC
               /\ \A j \in ms[k].index..(ms[k].lastIndex - 2) : turns[i].answer[j] # TC
          /\ narrative(turns[i].answer) = trim(PlainUpTo(g, N + 1))
          /\ \E j \in 1..Len(posted[i]) :
               posted[i][j] = receiveNote(trim(PlainUpTo(g, N + 1)))
          /\ Filter(Segment(i, LastReply(i)), {"run"})
               = SubSeq([k \in 1..N |-> Ev("run", StartOf(g, k), "")], 1,
                        Len(Filter(Segment(i, LastReply(i)), {"run"})))

\* a text of two blocks with plain text before, between and after them, both
\* directives run
C21_Witness ==
  \E i \in Turn :
    /\ turns[i].answer = Render(env.gen)
    /\ Len(env.gen.blocks) = 2
    /\ \A k \in 1..3 : env.gen.plains[k] # <<>>
    /\ Len(Filter(Segment(i, LastReply(i)), {"out", "err"})) = 2
    /\ \E j \in 1..Len(posted[i]) : posted[i][j] = receiveNote(<<"t", SP, SP, "t", SP, SP, "t">>)

\* the first notification and the first history message of activation i in
\* this step
NewNote(i) == posted'[i][Len(posted[i]) + 1]
NewMessage(i) == heap'[turns[i].history][Len(heap[turns[i].history]) + 1]

(***************************************************************************)
(* C22.  A run_command whose process runs and exits with a code that is    *)
(* not zero is reported as a success: the notification has status          *)
(* 'success', the history gets a System message 'Tool Output               *)
(* (run_command)' whose text carries the exit code, and no 'Error' entry   *)
(* is made for the directive.                                              *)
(***************************************************************************)
C22_NonZeroExitIsSuccess ==
  [][\A i \in Turn :
       ExecDone(i, "exit1") =>
         /\ StepEvents(i)[1] = Ev("out", turns[i].index, "")
         /\ \A k \in 1..Len(StepEvents(i)) :
              ~(StepEvents(i)[k].ev = "err" /\ StepEvents(i)[k].n = turns[i].index)
         /\ NewNote(i).type = "toolCall"
         /\ NewNote(i).code = <<"run_command">>
         /\ NewNote(i).status = "success"
         /\ includes(NewNote(i).result, <<"Exit Code: ", "1">>)
         /\ NewMessage(i).role = "System"
         /\ startsWith(NewMessage(i).content, <<"Tool Output (", "run_command", "):\n">>)
         /\ includes(NewMessage(i).content, <<"Exit Code: ", "1">>)]_vars

\* a command has exited with code 1 and the history holds its output
C22_Witness ==
  \E i \in Turn :
    /\ \E k \in 1..Len(heap[turns[i].history]) :
         heap[turns[i].history][k]
           = Message("System", <<"Tool Output (", "run_command", "):\n",
                                 "Exit Code: ", "1", "\n", "out">>)
    /\ \E k \in 1..Len(posted[i]) :
         /\ posted[i][k].type = "toolCall"
         /\ posted[i][k].status = "success"
         /\ posted[i][k].result = <<"Exit Code: ", "1", "\n", "out">>

(***************************************************************************)
(* C23.  A run_command whose process could not be spawned at all is        *)
(* reported as an error: the notification has status 'error' and the       *)
(* history gets a System message 'Error (run_command)'.                    *)
(***************************************************************************)
C23_SpawnFailureIsError ==
  [][\A i \in Turn :
       ExecDone(i, "spawnFailed") =>
         /\ NewNote(i).type = "toolCall"
         /\ NewNote(i).code = <<"run_command">>
         /\ NewNote(i).status = "error"
         /\ NewMessage(i).role = "System"
         /\ startsWith(NewMessage(i).content, <<"Error (", "run_command", "): ">>)]_vars

\* the kinds of directive the loop knows
GatewayKinds ==
  {<<"read_file">>, <<"write_file">>, <<"replace_lines">>, <<"list_files">>,
   <<"run_command">>, <<"restore_file">>}

\* what activation i posted and pushed in this step
StepNotes(i) == SubSeq(posted'[i], Len(posted[i]) + 1, Len(posted'[i]))
StepMessages(i) ==
  SubSeq(heap'[turns[i].history], Len(heap[turns[i].history]) + 1,
         Len(heap'[turns[i].history]))

(***************************************************************************)
(* C24.  A directive whose kind is none of read_file, write_file,          *)
(* replace_lines, list_files, run_command, restore_file starts no          *)
(* operation of the gateway (nothing is awaited for it, and the files and  *)
(* the clock stay as they are) and is never reported as an error: it ends  *)
(* at once with status 'success' and a 'Tool Output' message, and no       *)
(* 'error' notification and no 'Error (...)' message is made for it.       *)
(***************************************************************************)
C24_UnknownKindIsNoError ==
  [][\A i \in Turn :
       \A k \in 1..Len(StepEvents(i)) :
         LET e == StepEvents(i)[k]
             code == matchAt(turns'[i].answer, e.n).code
         IN  (e.ev = "run" /\ code \notin GatewayKinds) =>
               /\ k < Len(StepEvents(i))
               /\ StepEvents(i)[k + 1] = Ev("out", e.n, "")
               /\ \A j \in 1..Len(StepEvents(i)) :
                    StepEvents(i)[j].n = e.n => StepEvents(i)[j].ev \notin {"await", "err"}
               /\ (turns[i].pc = "fetch" /\ k = 2) => (fs' = fs /\ now' = now)
               /\ \E j \in 1..Len(StepNotes(i)) :
                    /\ j < Len(StepNotes(i))
                    /\ StepNotes(i)[j].type = "toolCall"
                    /\ StepNotes(i)[j].code = code
                    /\ StepNotes(i)[j].status = "running"
                    /\ StepNotes(i)[j + 1].type = "toolCall"
                    /\ StepNotes(i)[j + 1].code = code
                    /\ StepNotes(i)[j + 1].status = "success"
               /\ \A j \in 1..Len(StepNotes(i)) :
                    (StepNotes(i)[j].type = "toolCall" /\ StepNotes(i)[j].code = code)
                      => StepNotes(i)[j].status # "error"
               /\ \E j \in 1..Len(StepMessages(i)) :
                    StepMessages(i)[j]
                      = Message("System", <<"Tool Output (">> \o code \o <<"):\n">>)
               /\ \A j \in 1..Len(StepMessages(i)) :
                    ~startsWith(StepMessages(i)[j].content, <<"Error (">> \o code)]_vars

\* a delete_file directive has ended, after a directive that wrote a file
C24_Witness ==
  \E i \in Turn :
    /\ Count(i, "reply") >= 1
    /\ Len(env.gen.blocks) = 2
    /\ env.gen.blocks[1].code = "write_file"
    /\ env.gen.blocks[2].code = "delete_file"
    /\ turns[i].answer = Render(env.gen)
    /\ Outcome(i, StartOf(env.gen, 2)) = "out"

(***************************************************************************)
(* C25.  The status events bracket the turn: working = true is the first   *)
(* notification of a turn, and working = false comes after every other     *)
(* notification of the turn, the narratives, the status of each directive  *)
(* and the error notification of a failed model call included.             *)
(***************************************************************************)
C25_StatusBracketsTurn ==
  \A i \in Turn :
    /\ posted[i][1] = statusNote(TRUE)
    /\ \A k \in 2..Len(posted[i]) : posted[i][k] # statusNote(TRUE)
    /\ \A k \in 1..Len(posted[i]) : posted[i][k] = statusNote(FALSE) => k = Len(posted[i])
    /\ turns[i].pc = "done" => Last(posted[i]) = statusNote(FALSE)

RECURSIVE Select(_, _)
\* the members of q whose field `type` is ty / whose field `role` is System
Select(q, ty) ==
  IF q = <<>> THEN <<>>
  ELSE (IF Head(q).type = ty THEN <<Head(q)>> ELSE <<>>) \o Select(Tail(q), ty)

RECURSIVE SystemMessages(_)
SystemMessages(h) ==
  IF h = <<>> THEN <<>>
  ELSE (IF Head(h).role = "System" THEN <<Head(h)>> ELSE <<>>) \o SystemMessages(Tail(h))

(***************************************************************************)
(* C26.  For every directive matched in a reply exactly one 'running'      *)
(* notification is posted before its operation starts, then exactly one    *)
(* terminal notification, 'success' or 'error', and exactly one System     *)
(* message is pushed; the two agree: 'success' goes with 'Tool Output      *)
(* (<kind>)' and 'error' with 'Error (<kind>)'.  The directive             *)
(* notifications of a turn are thus running, terminal, running, terminal,  *)
(* ..., one pair per directive started, the last pair open exactly while   *)
(* the operation is awaited, and the k-th System message of the turn's     *)
(* array is the one of the k-th pair.                                      *)
(***************************************************************************)
C26_OneRunningOneTerminal ==
  \A i \in Turn :
    LET calls == Select(posted[i], "toolCall")
        sys == SystemMessages(heap[turns[i].history])
        started == Count(i, "run")
        ended == Count(i, "out") + Count(i, "err")
    IN  /\ Len(calls) = started + ended
        /\ ended = IF turns[i].pc \in AwaitingTool THEN started - 1 ELSE started
        /\ \A k \in 1..Len(calls) :
             IF k % 2 = 1 THEN calls[k].status = "running"
             ELSE /\ calls[k].status \in {"success", "error"}
                  /\ calls[k].code = calls[k - 1].code
                  /\ calls[k].path = calls[k - 1].path
        /\ SoleHolder(i) =>
             /\ Len(sys) = ended
             /\ \A k \in 1..ended :
                  /\ calls[2 * k].status = "success" =>
                       sys[k].content
                         = <<"Tool Output (">> \o calls[2 * k].code \o <<"):\n">>
                             \o calls[2 * k].result
                  /\ calls[2 * k].status = "error" =>
                       sys[k].content
                         = <<"Error (">> \o calls[2 * k].code \o <<"): ">>
                             \o calls[2 * k].result

\* a turn has ended three directives, one of them with an error and one with
\* a success
C26_Witness ==
  \E i \in Turn :
    LET calls == Select(posted[i], "toolCall")
    IN  /\ SoleHolder(i)
        /\ Len(calls) >= 6
        /\ \E k \in 1..Len(calls) : calls[k].status = "error"
        /\ \E k \in 1..Len(calls) : calls[k].status = "success"
        /\ Len(SystemMessages(heap[turns[i].history])) >= 3

\* p is a prefix of q
IsPrefix(p, q) == Len(p) <= Len(q) /\ SubSeq(q, 1, Len(p)) = p

(***************************************************************************)
(* C27.  History is append-only: in a step that handles no clearSession    *)
(* and no deleteSession for a session id, the store still has a history    *)
(* for id and the history it had before the step is a prefix of it; no     *)
(* message is removed, moved or rewritten, also while turns of the same    *)
(* session or of other sessions interleave.  (A prefix of a prefix is a    *)
(* prefix, so this holds between any two states with no clear or delete    *)
(* of id in between.)                                                      *)
(***************************************************************************)
C27_HistoryAppendOnly ==
  [][\A id \in SessionId :
       ( /\ sessionHistories[id] # 0
         /\ ~Handles("clearSession", id)
         /\ ~Handles("deleteSession", id) ) =>
           /\ sessionHistories'[id] # 0
           /\ IsPrefix(heap[sessionHistories[id]], heap'[sessionHistories'[id]])]_vars

\* two activations of one session have both pushed a reply and a System
\* message to the array the store holds for the session
C27_Witness ==
  \E i, j \in Turn :
    /\ i # j
    /\ turns[i].history = turns[j].history
    /\ sessionHistories[turns[i].sessionId] = turns[i].history
    /\ Count(i, "out") >= 1
    /\ Count(j, "out") >= 1
    /\ Count(j, "fetch") >= 2
    /\ Len(heap[turns[i].history]) >= 6

(***************************************************************************)
(* C28.  Sessions are independent: a step that is not a sendMessage,       *)
(* clearSession or deleteSession for session B and not a step of a turn of *)
(* B (so a request for, or a step of a turn of, some other session A)      *)
(* leaves the store's history of B as it is, whatever the interleaving of  *)
(* the loops that run.                                                     *)
(***************************************************************************)
\* this step is a request for sessionId or a step of one of its turns
StepOf(sessionId) ==
  \/ \E kind \in {"sendMessage", "clearSession", "deleteSession"} : Handles(kind, sessionId)
  \/ \E i \in Turn : turns[i].sessionId = sessionId /\ turns'[i] # turns[i]

C28_SessionsIndependent ==
  [][\A A, B \in SessionId :
       (A # B /\ StepOf(A)) =>
         /\ ~StepOf(B)
         /\ sessionHistories'[B] = sessionHistories[B]
         /\ sessionHistories[B] # 0 => heap'[sessionHistories[B]] = heap[sessionHistories[B]]]_vars

\* two sessions have a turn each, both under way, with their own histories
C28_Witness ==
  \E i, j \in Turn :
    /\ turns[i].sessionId # turns[j].sessionId
    /\ sessionHistories[turns[i].sessionId] = turns[i].history
    /\ sessionHistories[turns[j].sessionId] = turns[j].history
    /\ Count(i, "out") >= 1
    /\ Count(j, "out") >= 1
    /\ heap[turns[i].history] # heap[turns[j].history]

RECURSIVE JoinUpTo(_, _)
\* the lines `role: content` of the first n messages of h, a blank line
\* between any two
JoinUpTo(h, n) ==
  IF n = 0 THEN <<>>
  ELSE JoinUpTo(h, n - 1) \o (IF n > 1 THEN <<"\n\n">> ELSE <<>>)
         \o <<h[n].role, ": ">> \o h[n].content

\* the prompt of the messages h, in their order
PromptOf(h) == <<"systemPrompt", "\n\n">> \o JoinUpTo(h, Len(h)) \o <<"\n\nAssistant:">>

\* no other activation and no clearSession or deleteSession on the session
\* of activation i, this step included
Alone(i) ==
  /\ \A j \in 1..Len(turns') : j # i => turns'[j].sessionId # turns[i].sessionId
  /\ \A k \in 1..Len(requests') :
       requests'[k][2] = turns[i].sessionId => requests'[k][1] = "sendMessage"

\* how the directives of the last reply of a log ended, in the order in
\* which they ended
EndsOfLastReply(log) ==
  LET p == CHOOSE m \in 1..Len(log) :
             log[m].ev = "reply" /\ \A j \in (m + 1)..Len(log) : log[j].ev # "reply"
  IN  Filter(SubSeq(log, p + 1, Len(log)), {"out", "err"})

(***************************************************************************)
(* C29.  In a turn with no concurrent request on its session, the prompt   *)
(* of iteration i + 1 is built from the whole history in its order, which  *)
(* holds, after the messages of the prompt of iteration i, the Assistant   *)
(* reply of iteration i and then one System message for each directive of  *)
(* that reply, in the order of execution; and the Assistant reply is in    *)
(* the history before any directive of it is executed: while a directive   *)
(* is awaited, the history ends with the reply and the System messages of  *)
(* the directives that have ended.                                         *)
(***************************************************************************)
C29_NextPromptFromHistory ==
  [][\A i \in Turn :
       Alone(i) =>
         /\ (Len(StepEvents(i)) > 0 /\ Last(StepEvents(i)).ev = "fetch") =>
              LET H == heap'[turns[i].history]
                  answer == turns'[i].answer
                  starts == DirectiveStarts(answer)
                  ends == EndsOfLastReply(turns'[i].log)
                  n == Len(H) - Len(starts) - 1
              IN  /\ turns'[i].fullMessage = PromptOf(H)
                  /\ n >= 1
                  /\ PromptOf(SubSeq(H, 1, n)) = turns[i].fullMessage
                  /\ H[n + 1] = Message("Assistant", answer)
                  /\ Len(ends) = Len(starts)
                  /\ \A m \in 1..Len(starts) :
                       LET code == matchAt(answer, starts[m]).code
                       IN  /\ ends[m].n = starts[m]
                           /\ H[n + 1 + m].role = "System"
                           /\ ends[m].ev = "out" =>
                                startsWith(H[n + 1 + m].content,
                                           <<"Tool Output (">> \o code \o <<"):\n">>)
                           /\ ends[m].ev = "err" =>
                                startsWith(H[n + 1 + m].content,
                                           <<"Error (">> \o code \o <<"): ">>)
         /\ turns'[i].pc \in AwaitingTool =>
              LET H == heap'[turns[i].history]
                  ends == EndsOfLastReply(turns'[i].log)
              IN  /\ Len(H) >= Len(ends) + 2
                  /\ H[Len(H) - Len(ends)] = Message("Assistant", turns'[i].answer)
                  /\ Len(SystemTail(H)) = Len(ends)]_vars

\* the third prompt of a turn, after a reply of two directives of which one
\* failed
C29_Witness ==
  \E i \in Turn :
    /\ Len(turns) = 1
    /\ \A k \in 1..Len(requests) : requests[k][1] = "sendMessage"
    /\ Count(i, "fetch") = 3
    /\ turns[i].pc = "fetch"
    /\ turns[i].fullMessage = PromptOf(heap[turns[i].history])
    /\ Len(DirectiveStarts(turns[i].answer)) = 2
    /\ \E m \in 1..2 : EndsOfLastReply(turns[i].log)[m].ev = "err"

(***************************************************************************)
(* C30.  When no workspace root is configured, every directive of kind     *)
(* read_file, write_file, replace_lines, list_files, run_command or        *)
(* restore_file fails with `No workspace`, before any other check (an      *)
(* ignored path or a malformed body gives the same failure), and with no   *)
(* effect: nothing is awaited, the files and the clock stay as they are.   *)
(* The failure is recorded as an 'Error' System message with an 'error'    *)
(* notification, and the loop goes on with the next directive or the next  *)
(* model call.                                                             *)
(***************************************************************************)
C30_NoWorkspaceFails ==
  [][\A i \in Turn :
       \A k \in 1..Len(StepEvents(i)) :
         LET e == StepEvents(i)[k]
             code == matchAt(turns'[i].answer, e.n).code
         IN  (~workspaceFolders /\ e.ev = "run" /\ code \in GatewayKinds) =>
               /\ k < Len(StepEvents(i))
               /\ StepEvents(i)[k + 1] = Ev("err", e.n, "")
               /\ \A j \in 1..Len(StepEvents(i)) : StepEvents(i)[j].ev # "await"
               /\ fs' = fs
               /\ now' = now
               /\ \E j \in 1..(Len(StepNotes(i)) - 1) :
                    /\ StepNotes(i)[j].type = "toolCall"
                    /\ StepNotes(i)[j].code = code
                    /\ StepNotes(i)[j].status = "running"
                    /\ StepNotes(i)[j + 1].type = "toolCall"
                    /\ StepNotes(i)[j + 1].code = code
                    /\ StepNotes(i)[j + 1].status = "error"
                    /\ StepNotes(i)[j + 1].result = <<"No workspace">>
               /\ \A j \in 1..Len(StepNotes(i)) :
                    (StepNotes(i)[j].type = "toolCall" /\ StepNotes(i)[j].code = code)
                      => StepNotes(i)[j].status # "success"
               /\ \E j \in 1..Len(StepMessages(i)) :
                    StepMessages(i)[j]
                      = Message("System", <<"Error (">> \o code \o <<"): ", "No workspace">>)
               /\ \/ /\ k + 2 <= Len(StepEvents(i))
                     /\ StepEvents(i)[k + 2].ev \in {"run", "fetch"}
                  \/ /\ k + 1 = Len(StepEvents(i))
                     /\ turns'[i].loopCount = maxLoops
                     /\ turns'[i].pc = "done"]_vars

\* without a workspace, the two directives of a reply, a read of an ignored
\* path among them, have failed with `No workspace` and the model is called
\* again
C30_Witness ==
  \E i \in Turn :
    /\ ~workspaceFolders
    /\ turns[i].answer = DeniedThenWriteB
    /\ turns[i].pc = "fetch"
    /\ Filter(Segment(i, LastReply(i)), {"run", "err", "out", "await"})
         = << Ev("run", DirectiveStarts(DeniedThenWriteB)[1], ""),
              Ev("err", DirectiveStarts(DeniedThenWriteB)[1], ""),
              Ev("run", DirectiveStarts(DeniedThenWriteB)[2], ""),
              Ev("err", DirectiveStarts(DeniedThenWriteB)[2], "") >>
    /\ Last(heap[turns[i].history])
         = Message("System", <<"Error (", "write_file", "): ", "No workspace">>)
    /\ fs = InitialFiles

\* the copy to the backup name has failed for the directive activation i is
\* executing
CopyFailed(i) ==
  \E k \in 1..Len(Log(i)) :
    /\ k > LastReply(i)
    /\ Log(i)[k] = Ev("copyFailed", turns[i].index, "")

\* the content the directive of activation i is to write
NewContent(i) ==
  IF turns[i].op = "writeFile" THEN encode(turns[i].content)
  ELSE encode(replaceFirst(turns[i].original, turns[i].search, turns[i].replace))

(***************************************************************************)
(* C31.  A failure of the copy to the backup name does not abort writeFile *)
(* or replaceLines: the operation goes on to its write, the live file is   *)
(* overwritten with the new content and the directive is reported as a     *)
(* success.  (Stated for a path that can be written: not a directory.)     *)
(***************************************************************************)
C31_BackupFailureDoesNotAbort ==
  [][\A i \in Turn :
       /\ CopyDone(i, FALSE) =>
            /\ turns'[i].pc = "write"
            /\ turns'[i].data = NewContent(i)
            /\ \A k \in 1..Len(StepEvents(i)) : StepEvents(i)[k].ev # "err"
       /\ ( /\ Leaves(i, "write")
            /\ CopyFailed(i)
            /\ ~blocked(joinPath(turns[i].relativePath)) ) =>
              /\ fs'[joinPath(turns[i].relativePath)] = NewContent(i)
              /\ StepEvents(i)[1] = Ev("out", turns[i].index, "")
              /\ NewNote(i).type = "toolCall"
              /\ NewNote(i).status = "success"
              /\ startsWith(NewMessage(i).content,
                            <<"Tool Output (">> \o turns[i].code \o <<"):\n">>)]_vars

\* a replace_lines on an existing file has ended with a success after the
\* copy to the backup name failed: the file is rewritten and has no backup
C31_Witness ==
  \E i \in Turn :
    /\ Count(i, "copyFailed") >= 1
    /\ turns[i].code \in {<<"replace_lines">>}
    /\ Outcome(i, turns[i].index) = "out"
    /\ CopyFailed(i)
    /\ fs[PathA] = <<"z", "y", "x">>
    /\ BackupsOf(fs, PathA) = {}

(***************************************************************************)
(* The simpler implementation, src/src/chatViewProvider.ts: what its loop  *)
(* hands to _writeFile, and what _writeFile hands to fs.writeFile.         *)
(***************************************************************************)
\* const trimmedContent = content ? content.trim() : ''
trimmedContent(content) == IF content # <<>> THEN trim(content) ELSE <<>>

\* fs.writeFile(fileUri, new TextEncoder().encode(content)) of the _writeFile
\* called with trimmedContent
simpleWritten(content) == encode(trimmedContent(content))

(***************************************************************************)
(* C32.  The richer implementation does what the simpler one does on       *)
(* replies that use only write_file, read_file, list_files and             *)
(* run_command: the same mutations of the files with the same written      *)
(* contents.  In particular, the content a write_file directive writes to  *)
(* its file in the richer implementation is the content the simpler        *)
(* implementation writes for the same directive.                           *)
(***************************************************************************)
C32_SameWrittenContents ==
  [][\A i \in Turn :
       ( /\ Leaves(i, "write")
         /\ turns[i].op = "writeFile"
         /\ ~blocked(joinPath(turns[i].relativePath)) ) =>
           fs'[joinPath(turns[i].relativePath)] = simpleWritten(turns[i].content)]_vars

\* the kinds of the directives of a reply, in its order
KindsOf(answer) ==
  [m \in 1..Len(DirectiveStarts(answer)) |-> matchAt(answer, DirectiveStarts(answer)[m]).code]

(***************************************************************************)
(* C33.  A reply whose directives all have unknown kinds still counts as   *)
(* a reply with tool calls: the loop appends the reply and one System      *)
(* message 'Tool Output (<kind>)' with empty output per directive, does    *)
(* not end the turn as for a final answer, and calls the model again if    *)
(* loopCount < maxLoops.                                                   *)
(***************************************************************************)
C33_UnknownKindsContinue ==
  [][\A i \in Turn :
       LET answer == turns'[i].answer
           kinds == KindsOf(answer)
       IN  ( /\ Leaves(i, "fetch")
             /\ Len(StepEvents(i)) > 0
             /\ StepEvents(i)[1].ev = "reply"
             /\ Len(kinds) > 0
             /\ \A m \in 1..Len(kinds) : kinds[m] \notin GatewayKinds ) =>
               /\ StepMessages(i)
                    = <<Message("Assistant", answer)>>
                        \o [m \in 1..Len(kinds) |->
                              Message("System", <<"Tool Output (">> \o kinds[m] \o <<"):\n">>)]
               /\ IF turns[i].loopCount < maxLoops
                  THEN /\ turns'[i].pc = "fetch"
                       /\ turns'[i].loopCount = turns[i].loopCount + 1
                       /\ Last(StepEvents(i)).ev = "fetch"
                       /\ Last(posted'[i]) # statusNote(FALSE)
                  ELSE turns'[i].pc = "done"]_vars

\* the model is called a third time after two replies of one delete_file
\* directive each
C33_Witness ==
  \E i \in Turn :
    /\ turns[i].answer = UnknownKind
    /\ turns[i].pc = "fetch"
    /\ turns[i].loopCount = 3
    /\ Len(SystemMessages(heap[turns[i].history])) = 2
    /\ Last(heap[turns[i].history])
         = Message("System", <<"Tool Output (", "delete_file", "):\n">>)

\* the names of the root of `files` that start with relativePath + '.bak.'
BaksIn(files, relativePath) ==
  {n \in {splitPath(f, <<>>)[1] : f \in DOMAIN files} : startsWith(n, relativePath \o <<BAK>>)}

(***************************************************************************)
(* C34.  restoreFile does not consume, delete or modify any backup record: *)
(* a successful restoreFile(p) changes the file p only, to the content of  *)
(* the backup it chose, and leaves the backup records of p and their       *)
(* contents as they are; hence a second restoreFile(p) right after it      *)
(* would choose a backup with the content p now has, and leave p as it is. *)
(***************************************************************************)
C34_RestoreKeepsBackups ==
  [][\A i \in Turn :
       (Leaves(i, "restoreCopy") /\ StepEvents(i)[1].ev = "out") =>
         LET p == turns[i].relativePath
             dst == joinPath(p)
         IN  /\ DOMAIN fs' = DOMAIN fs \cup {dst}
             /\ \A f \in DOMAIN fs \ {dst} : fs'[f] = fs[f]
             /\ fs'[dst] = fs[joinPath(turns[i].latestBak)]
             /\ BaksIn(fs', p) = BaksIn(fs, p)
             /\ BackupsOf(fs', dst) = BackupsOf(fs, dst)
             /\ \A b \in BackupsOf(fs, dst) : fs'[b] = fs[b]
             /\ Len(turns) = 1 =>
                  \A b \in latest(BaksIn(fs', p)) : fs'[joinPath(b)] = fs'[dst]]_vars

\* a restore_file has just succeeded: the file has the content of a backup
\* record that is still there
C34_Witness ==
  \E i \in Turn :
    /\ Len(turns) = 1
    /\ Last(heap[turns[i].history])
         = Message("System", <<"Tool Output (", "restore_file", "):\n", "Restored \"">>
                               \o PathA \o <<"\" from backup.">>)
    /\ turns[i].latestBak \in BaksIn(fs, PathA)
    /\ fs[PathA] = fs[joinPath(turns[i].latestBak)]

\* some write_file directive has written to the path
WrittenDirectly(relativePath) ==
  \E h \in 1..Len(heap) : \E k \in 1..Len(heap[h]) :
    heap[h][k] = Message("System", <<"Tool Output (", "write_file", "):\n", "Written to ">>
                                     \o relativePath)

\* the names _createBackup gives to the snapshots of relativePath
SnapshotNames(relativePath) == {relativePath \o <<BAK, timestamp(t)>> : t \in 1..MaxClock}

(***************************************************************************)
(* C35.  restoreFile(p) only ever copies from a file that was created as a *)
(* snapshot of p itself: the file it copies from has a name _createBackup  *)
(* gives to a snapshot of p, it is not a snapshot of another path (such as *)
(* a backup of a backup of p), and no write_file directive has written to  *)
(* it directly.                                                            *)
(***************************************************************************)
C35_RestoresOwnSnapshot ==
  [][\A i \in Turn :
       (Leaves(i, "restoreCopy") /\ StepEvents(i)[1].ev = "out") =>
         /\ turns[i].latestBak \in SnapshotNames(turns[i].relativePath)
         /\ ~WrittenDirectly(turns[i].latestBak)]_vars

\* an activation of another session has issued a write_file on the file
\* activation i is writing
OtherSessionWrites(i) ==
  \E j \in Turn :
    /\ turns[j].sessionId # turns[i].sessionId
    /\ turns[j].code = <<"write_file">>
    /\ Count(j, "run") >= 1
    /\ joinPath(turns[j].relativePath) = joinPath(turns[i].relativePath)

(***************************************************************************)
(* C36.  When the loops of two different sessions run concurrently and     *)
(* both issue write_file on the same existing path, every content that is  *)
(* overwritten is preserved: for each overwrite, the content that was live *)
(* just before it is the content of some backup record of the path after   *)
(* it.                                                                     *)
(***************************************************************************)
C36_ConcurrentWritesPreserved ==
  [][\A i \in Turn :
       ( /\ Leaves(i, "write")
         /\ turns[i].op = "writeFile"
         /\ StepEvents(i)[1].ev = "out"
         /\ exists(joinPath(turns[i].relativePath))
         /\ OtherSessionWrites(i) ) =>
           \E b \in BackupsOf(fs', joinPath(turns[i].relativePath)) :
             fs'[b] = fs[joinPath(turns[i].relativePath)]]_vars

(***************************************************************************)
(* C37.  replace_lines loses no update under concurrent sessions: the      *)
(* content it writes is the content that was live at the moment of its     *)
(* rewrite, with the first occurrence of search replaced; a write to the   *)
(* file that another session completed between the read and the rewrite    *)
(* of replace_lines is not discarded.                                      *)
(***************************************************************************)
C37_ReplaceLosesNoUpdate ==
  [][\A i \in Turn :
       ( /\ Leaves(i, "write")
         /\ turns[i].op = "replaceLines"
         /\ StepEvents(i)[1].ev = "out"
         /\ exists(joinPath(turns[i].relativePath)) ) =>
           fs'[joinPath(turns[i].relativePath)]
             = encode(replaceFirst(decode(fs[joinPath(turns[i].relativePath)]),
                                   turns[i].search, turns[i].replace))]_vars

=============================================================================
